---- MODULE Spec2Model ----
(***************************************************************************)
(* A model of the query orchestration core of the ConversaBI JavaScript    *)
(* SDK: the response cache (src/src/core/CacheManager.ts), the connector   *)
(* manager's fan-out and aggregation (src/src/core/DataConnectorManager.ts)*)
(* the rule-based NLP engine (src/src/core/NLPEngine.ts) and the SDK's     *)
(* init/query calls (src/src/core/ConversaSDK.ts).                         *)
(*                                                                         *)
(* JavaScript runs one callback at a time: a stretch of code between two   *)
(* awaits is one atomic action here, and every await is a point where      *)
(* another call may run.                                                   *)
(***************************************************************************)
EXTENDS Integers, Sequences, FiniteSets, TLC

VARIABLES
    \* ---- CacheManager (CacheManager.ts:7-10) ----
    cache,           \* the Map, as the sequence of its entries in insertion order
    enabled,         \* this.enabled
    defaultTimeout,  \* this.defaultTimeout
    maxSize,         \* this.maxSize
    \* ---- the clock read by Date.now() ----
    now,
    ticks,           \* how many times the clock has advanced (bounds the model)
    \* ---- what the last step did to the cache (history, read by the properties) ----
    lastOp,
    \* ---- a pure function under test: its arguments and its result ----
    fnIn,
    fnOut,
    \* ---- ConversaBI (ConversaSDK.ts:38-44) and its collaborators ----
    isInitialized,   \* this.isInitialized
    nlpInitialized,  \* NLPEngine.isInitialized (NLPEngine.ts:14)
    config,          \* this.config: dataSources is the sequence of their types
                     \* (empty when undefined), defined tells it is an array
    connectors,      \* DataConnectorManager.connectors, as its keys in insertion order
    events,          \* how often each event has been emitted
    \* ---- the calls of query: p is a caller that awaits its call ----
    calls,           \* how many calls have been made (bounds the model)
    pc,              \* where the call of p stands
    msg,             \* the message of the call of p
    loc,             \* the local variables of the call of p
    returned,        \* the promise the call of p returned
    trace,           \* the components the call of p has invoked
    frame,           \* the method p called, and for sendMessage its session
                     \* id and the promise it returned
    \* ---- history, read by the properties ----
    firstComputed,   \* per message, the first response query computed for it
    sessions         \* the session ids createChatSession has returned

cacheVars == <<cache, enabled, defaultTimeout, maxSize, now, ticks, lastOp>>
fnVars == <<fnIn, fnOut>>
sdkVars == <<isInitialized, nlpInitialized, config, connectors, events,
             calls, pc, msg, loc, returned, trace, frame, firstComputed,
             sessions>>
vars == <<cacheVars, fnVars, sdkVars>>

----------------------------------------------------------------------------
(* Bounds of the model *)

\* how many times the clock may advance in one behaviour
MaxTicks == 2

(* Program constants *)

\* CacheManager.ts:12  timeout: number = 300000
DefaultTimeout == 300000
\* CacheManager.ts:15  this.maxSize = 1000
DefaultMaxSize == 1000

(* Inputs *)

\* the keys the callers use (a JavaScript string is the sequence of its
\* characters, '' the empty sequence)
CacheKeys == {<<"A">>, <<"B">>}
\* the optional timeout argument of set: <<>> is "not given"
TimeoutArgs == {<<>>, <<0>>, <<1000>>}
\* the amounts (ms) by which the clock advances between two callbacks
TickSteps == {1, 1000}

\* the value of a call that returns null / undefined
Null == <<>>

----------------------------------------------------------------------------
(* The Map<string, CacheEntry> of CacheManager.ts:7, as a sequence of       *)
(* entries in insertion order (the order Map iterates in).                  *)

\* Map.has
MapHas(c, k) == \E i \in 1..Len(c) : c[i].key = k

\* Map.get: the entry of key k (only used when MapHas(c, k))
MapGet(c, k) == c[CHOOSE i \in 1..Len(c) : c[i].key = k]

\* Map.delete
MapDelete(c, k) == SelectSeq(c, LAMBDA e : e.key # k)

\* Map.set: an existing key keeps its place, a new key goes last
MapSet(c, e) ==
    IF MapHas(c, e.key)
    THEN [i \in 1..Len(c) |-> IF c[i].key = e.key THEN e ELSE c[i]]
    ELSE Append(c, e)

\* the keys of the map
MapKeys(c) == {c[i].key : i \in 1..Len(c)}

----------------------------------------------------------------------------
(* CacheManager.evictLRU, CacheManager.ts:158-177 *)

\* the loop of lines 167-172: entry i replaces the candidate when its
\* lastAccessed is strictly below lruTime; the result is <<lruKey, lruTime>>
RECURSIVE lruScan(_, _, _, _)
lruScan(c, i, lruKey, lruTime) ==
    IF i > Len(c) THEN <<lruKey, lruTime>>
    ELSE IF c[i].lastAccessed < lruTime
         THEN lruScan(c, i + 1, c[i].key, c[i].lastAccessed)
         ELSE lruScan(c, i + 1, lruKey, lruTime)

\* lines 164-172: lruKey starts as '' and lruTime as Date.now()
lruKeyOf(c, t) == lruScan(c, 1, <<>>, t)[1]

\* the whole method: nothing to do on an empty map, and the key found is
\* deleted only if it is truthy (not the '' it started as)
evictLRU(c, t) ==
    IF Len(c) = 0 THEN c
    ELSE IF lruKeyOf(c, t) # <<>> THEN MapDelete(c, lruKeyOf(c, t))
    ELSE c

----------------------------------------------------------------------------
(* CacheManager.get, CacheManager.ts:21-40: <<the map afterwards, the value *)
(* returned>>                                                              *)

\* get as it would be without the delete of line 33: an expired entry is
\* reported absent and left in the map
cacheGetKeepsExpired(c, en, k, t) ==
    IF ~en THEN <<c, Null>>
    ELSE IF ~MapHas(c, k) THEN <<c, Null>>
    ELSE IF t > MapGet(c, k).expiresAt THEN <<c, Null>>
    ELSE <<MapSet(c, [MapGet(c, k) EXCEPT !.lastAccessed = t]), MapGet(c, k).data>>

cacheGet(c, en, k, t) ==
    IF ~en THEN <<c, Null>>
    ELSE IF ~MapHas(c, k) THEN <<c, Null>>
    ELSE IF t > MapGet(c, k).expiresAt THEN <<MapDelete(c, k), Null>>
    ELSE <<MapSet(c, [MapGet(c, k) EXCEPT !.lastAccessed = t]), MapGet(c, k).data>>

\* line 55: timeout || this.defaultTimeout (an absent and a 0 timeout are falsy)
effectiveTimeout(timeout, dflt) ==
    IF timeout = <<>> THEN dflt
    ELSE IF timeout[1] = 0 THEN dflt
    ELSE timeout[1]

\* CacheManager.set, CacheManager.ts:45-64: the map afterwards
cacheSet(c, en, max, dflt, k, data, timeout, t) ==
    IF ~en THEN c
    ELSE LET c1 == IF Len(c) >= max THEN evictLRU(c, t) ELSE c
         IN  MapSet(c1, [key |-> k, data |-> data,
                         expiresAt |-> t + effectiveTimeout(timeout, dflt),
                         lastAccessed |-> t])

\* CacheManager.cleanup, CacheManager.ts:107-120
cacheCleanupDropsAll(c, t) == <<>>

cacheCleanup(c, t) == SelectSeq(c, LAMBDA e : ~(t > e.expiresAt))

\* CacheManager.getStats, CacheManager.ts:83-102 (the two counts)
getStats(c, t, max) ==
    [totalEntries |-> Len(c),
     expiredEntries |-> Cardinality({i \in 1..Len(c) : t > c[i].expiresAt}),
     maxSize |-> max]

\* the loop of setMaxSize, CacheManager.ts:145-147. evictLRU reads Date.now()
\* anew on every turn; a turn that evicts nothing (every entry was accessed at
\* this very clock reading) is repeated until the clock has moved on, which is
\* one millisecond later at the earliest. The result is <<map, clock>>.
RECURSIVE evictLoop(_, _, _)
evictLoop(c, max, t) ==
    IF ~(Len(c) > max) THEN <<c, t>>
    ELSE IF evictLRU(c, t) # c THEN evictLoop(evictLRU(c, t), max, t)
    ELSE evictLoop(c, max, t + 1)

----------------------------------------------------------------------------
(* JavaScript strings: a string is the sequence of its characters, each a   *)
(* one-character TLA+ string.                                               *)

UpperLetters == <<"A", "B", "C", "D", "E", "F", "G", "H", "I", "J", "K", "L", "M",
                  "N", "O", "P", "Q", "R", "S", "T", "U", "V", "W", "X", "Y", "Z">>
LowerLetters == <<"a", "b", "c", "d", "e", "f", "g", "h", "i", "j", "k", "l", "m",
                  "n", "o", "p", "q", "r", "s", "t", "u", "v", "w", "x", "y", "z">>
Digits == <<"0", "1", "2", "3", "4", "5", "6", "7", "8", "9">>

\* where x stands in the sequence s (0: nowhere)
IndexOf(s, x) == IF \E i \in 1..Len(s) : s[i] = x
                 THEN CHOOSE i \in 1..Len(s) : s[i] = x
                 ELSE 0

IsUpper(ch) == IndexOf(UpperLetters, ch) > 0
IsLower(ch) == IndexOf(LowerLetters, ch) > 0
IsDigit(ch) == IndexOf(Digits, ch) > 0
\* the class [a-zA-Z0-9] of the regular expression of ConversaSDK.ts:339
IsAlnum(ch) == IsUpper(ch) \/ IsLower(ch) \/ IsDigit(ch)

\* the character code (charCodeAt) of the characters the model uses; the
\* euro sign, which is not a Latin-1 character, is written "U+20AC"
CharCode(ch) ==
    IF IsUpper(ch) THEN 64 + IndexOf(UpperLetters, ch)
    ELSE IF IsLower(ch) THEN 96 + IndexOf(LowerLetters, ch)
    ELSE IF IsDigit(ch) THEN 47 + IndexOf(Digits, ch)
    ELSE CASE ch = " " -> 32
           [] ch = "\"" -> 34
           [] ch = "," -> 44
           [] ch = ":" -> 58
           [] ch = ">" -> 62
           [] ch = "?" -> 63
           [] ch = "_" -> 95
           [] ch = "{" -> 123
           [] ch = "}" -> 125
           [] ch = "U+20AC" -> 8364

\* String.prototype.toLowerCase
ToLowerCase(s) ==
    [i \in 1..Len(s) |-> IF IsUpper(s[i]) THEN LowerLetters[IndexOf(UpperLetters, s[i])]
                         ELSE s[i]]

\* String.prototype.includes
Includes(s, term) ==
    \E i \in 0..(Len(s) - Len(term)) : \A j \in 1..Len(term) : s[i + j] = term[j]

\* the alphabet of base64: A-Z a-z 0-9 + /
Base64Alphabet == UpperLetters \o LowerLetters \o Digits \o <<"+", "/">>

\* btoa: the base64 text of the string whose character codes are the bytes
\* b[i], b[i+1], ...: three bytes give four characters, and a last group of
\* one or two bytes is padded with '='
RECURSIVE btoaFrom(_, _)
btoaFrom(b, i) ==
    LET n == Len(b) - i + 1
        B(x) == Base64Alphabet[x + 1]
    IN  IF n <= 0 THEN <<>>
        ELSE IF n = 1 THEN
            <<B(b[i] \div 4), B((b[i] % 4) * 16), "=", "=">>
        ELSE IF n = 2 THEN
            <<B(b[i] \div 4), B((b[i] % 4) * 16 + b[i+1] \div 16),
              B((b[i+1] % 16) * 4), "=">>
        ELSE
            <<B(b[i] \div 4), B((b[i] % 4) * 16 + b[i+1] \div 16),
              B((b[i+1] % 16) * 4 + b[i+2] \div 64), B(b[i+2] % 64)>>
            \o btoaFrom(b, i + 3)

\* btoa throws an InvalidCharacterError when a character of the string is
\* outside Latin-1
btoaThrows(s) == \E i \in 1..Len(s) : CharCode(s[i]) > 255

btoa(s) == btoaFrom([i \in 1..Len(s) |-> CharCode(s[i])], 1)

\* s.replace(/[^a-zA-Z0-9]/g, '')
StripNonAlnum(s) == SelectSeq(s, IsAlnum)

----------------------------------------------------------------------------
(* ConversaBI.generateCacheKey, ConversaSDK.ts:338-342 *)

\* the context argument (context?: any): undefined, or an object whose
\* properties are strings, given as the sequence of its <<name, value>> pairs
Undefined == [kind |-> "undefined", props |-> <<>>]
Object(props) == [kind |-> "object", props |-> props]

\* JSON.stringify of an object with string properties: {"name":"value",...}
RECURSIVE stringifyProps(_, _)
stringifyProps(props, i) ==
    IF i > Len(props) THEN <<>>
    ELSE (IF i > 1 THEN <<",">> ELSE <<>>)
         \o <<"\"">> \o props[i][1] \o <<"\"", ":", "\"">> \o props[i][2] \o <<"\"">>
         \o stringifyProps(props, i + 1)

JSONstringify(v) == <<"{">> \o stringifyProps(v.props, 1) \o <<"}">>

generateCacheKey(query, context) ==
    LET queryHash == StripNonAlnum(btoa(query))
        contextHash == IF context.kind = "object"
                       THEN StripNonAlnum(btoa(JSONstringify(context)))
                       ELSE <<>>
    IN  <<"q", "u", "e", "r", "y", "_">> \o queryHash \o <<"_">> \o contextHash

----------------------------------------------------------------------------
(* NLPEngine, src/src/core/NLPEngine.ts: the rule-based extractor *)

\* the data source types, DataConnectorManager.ts:35-48
Shopify == <<"s", "h", "o", "p", "i", "f", "y">>
Stripe == <<"s", "t", "r", "i", "p", "e">>
GoogleAnalytics == <<"g", "o", "o", "g", "l", "e", "-", "a", "n", "a", "l", "y", "t", "i", "c", "s">>
Salesforce == <<"s", "a", "l", "e", "s", "f", "o", "r", "c", "e">>
\* the keyword sets of extractIntent, NLPEngine.ts:133-141, in the order of
\* the if chain
intentPatterns ==
    << [intent |-> "retrieve", patterns |->
          << <<"w", "h", "a", "t">>,
            <<"s", "h", "o", "w">>,
            <<"l", "i", "s", "t">>,
            <<"g", "e", "t">> >>],
       [intent |-> "compare", patterns |->
          << <<"c", "o", "m", "p", "a", "r", "e">>,
            <<"v", "s">>,
            <<"v", "e", "r", "s", "u", "s">>,
            <<"d", "i", "f", "f", "e", "r", "e", "n", "c", "e">> >>],
       [intent |-> "trend", patterns |->
          << <<"t", "r", "e", "n", "d">>,
            <<"o", "v", "e", "r", " ", "t", "i", "m", "e">>,
            <<"g", "r", "o", "w", "t", "h">>,
            <<"c", "h", "a", "n", "g", "e">> >>],
       [intent |-> "explain", patterns |->
          << <<"w", "h", "y">>,
            <<"r", "e", "a", "s", "o", "n">>,
            <<"c", "a", "u", "s", "e">>,
            <<"b", "e", "c", "a", "u", "s", "e">> >>],
       [intent |-> "predict", patterns |->
          << <<"p", "r", "e", "d", "i", "c", "t">>,
            <<"f", "o", "r", "e", "c", "a", "s", "t">>,
            <<"f", "u", "t", "u", "r", "e">>,
            <<"n", "e", "x", "t">> >>] >>

\* NLPEngine.matchesPattern, NLPEngine.ts:254-256
matchesPattern(text, patterns) ==
    \E i \in 1..Len(patterns) : Includes(text, patterns[i])

\* extractIntent as it would be if the last matching keyword set won
extractIntentLastMatch(query) ==
    LET queryLower == ToLowerCase(query)
        hit == SelectSeq(intentPatterns,
                         LAMBDA ip : matchesPattern(queryLower, ip.patterns))
    IN  IF Len(hit) > 0 THEN hit[Len(hit)].intent ELSE "retrieve"

\* NLPEngine.extractIntent, NLPEngine.ts:129-146
extractIntent(query) ==
    LET queryLower == ToLowerCase(query)
        hit == SelectSeq(intentPatterns,
                         LAMBDA ip : matchesPattern(queryLower, ip.patterns))
    IN  IF Len(hit) > 0 THEN hit[1].intent ELSE "retrieve"

\* NLPEngine.getBusinessTerms, NLPEngine.ts:258-275, without business
\* context terminology: the entries of baseTerms in their order
getBusinessTerms ==
    << [term |-> <<"c", "u", "s", "t", "o", "m", "e", "r">>, type |-> "entity"],
       [term |-> <<"p", "r", "o", "d", "u", "c", "t">>, type |-> "entity"],
       [term |-> <<"o", "r", "d", "e", "r">>, type |-> "entity"],
       [term |-> <<"r", "e", "v", "e", "n", "u", "e">>, type |-> "metric"],
       [term |-> <<"s", "a", "l", "e", "s">>, type |-> "metric"],
       [term |-> <<"p", "r", "o", "f", "i", "t">>, type |-> "metric"],
       [term |-> <<"c", "o", "s", "t">>, type |-> "metric"] >>

\* NLPEngine.getMetrics, NLPEngine.ts:277-285, without business context metrics
getMetrics ==
    << <<"r", "e", "v", "e", "n", "u", "e">>,
       <<"s", "a", "l", "e", "s">>,
       <<"p", "r", "o", "f", "i", "t">>,
       <<"c", "o", "s", "t">>,
       <<"c", "o", "n", "v", "e", "r", "s", "i", "o", "n">>,
       <<"t", "r", "a", "f", "f", "i", "c">> >>

\* how many characters from position i on are white space / digits
RECURSIVE SpaceRun(_, _)
SpaceRun(s, i) ==
    IF i <= Len(s) /\ s[i] = " " THEN 1 + SpaceRun(s, i + 1) ELSE 0

RECURSIVE DigitRun(_, _)
DigitRun(s, i) ==
    IF i <= Len(s) /\ IsDigit(s[i]) THEN 1 + DigitRun(s, i + 1) ELSE 0

\* whether the word w stands in s at position i
StartsWithAt(s, i, w) ==
    /\ i >= 1
    /\ i + Len(w) - 1 <= Len(s)
    /\ \A j \in 1..Len(w) : s[i + j - 1] = w[j]

\* the length of the match of /last\s+(\d+)\s+days?/i at position i (0: none)
LastDaysMatchLen(s, i) ==
    LET l == ToLowerCase(s)
        a == i + 4
        sp1 == SpaceRun(l, a)
        d == DigitRun(l, a + sp1)
        sp2 == SpaceRun(l, a + sp1 + d)
        e == a + sp1 + d + sp2
    IN  IF /\ StartsWithAt(l, i, <<"l", "a", "s", "t">>)
           /\ sp1 >= 1 /\ d >= 1 /\ sp2 >= 1
           /\ StartsWithAt(l, e, <<"d", "a", "y">>)
        THEN (e + 3 - i) + (IF StartsWithAt(l, e + 3, <<"s">>) THEN 1 ELSE 0)
        ELSE 0

\* the length of the match of /this\s+(week|month|year)/i at position i
ThisPeriodMatchLen(s, i) ==
    LET l == ToLowerCase(s)
        a == i + 4
        sp == SpaceRun(l, a)
        e == a + sp
    IN  IF ~(StartsWithAt(l, i, <<"t", "h", "i", "s">>) /\ sp >= 1) THEN 0
        ELSE IF StartsWithAt(l, e, <<"w", "e", "e", "k">>) THEN e + 4 - i
        ELSE IF StartsWithAt(l, e, <<"m", "o", "n", "t", "h">>) THEN e + 5 - i
        ELSE IF StartsWithAt(l, e, <<"y", "e", "a", "r">>) THEN e + 4 - i
        ELSE 0

\* the length of the match of /(\d{4})/i at position i
YearMatchLen(s, i) == IF DigitRun(s, i) >= 4 THEN 4 ELSE 0

\* query.match(pattern): the leftmost match as a one-element sequence
\* <<match[0]>>, or <<>> when there is none; lens[i] is the length of the
\* pattern's match at position i (0: none)
FirstMatch(s, lens) ==
    IF \E i \in 1..Len(s) : lens[i] > 0
    THEN LET i == CHOOSE i \in 1..Len(s) :
                     /\ lens[i] > 0
                     /\ \A j \in 1..(i - 1) : lens[j] = 0
         IN  <<SubSeq(s, i, i + lens[i] - 1)>>
    ELSE <<>>

\* NLPEngine.extractTimeEntities, NLPEngine.ts:287-303
extractTimeEntities(query) ==
    LET ent(type, m) == IF m = <<>> THEN <<>> ELSE <<[type |-> type, value |-> m[1], confidence |-> 90]>>
    IN  ent("time_range", FirstMatch(query, [i \in 1..Len(query) |-> LastDaysMatchLen(query, i)]))
        \o ent("time_period", FirstMatch(query, [i \in 1..Len(query) |-> ThisPeriodMatchLen(query, i)]))
        \o ent("year", FirstMatch(query, [i \in 1..Len(query) |-> YearMatchLen(query, i)]))

\* NLPEngine.extractEntities, NLPEngine.ts:148-173 (confidences are kept in
\* hundredths: 90 is 0.9)
extractEntities(query) ==
    LET queryLower == ToLowerCase(query)
        terms == SelectSeq(getBusinessTerms, LAMBDA b : Includes(queryLower, b.term))
        metrics == SelectSeq(getMetrics, LAMBDA x : Includes(queryLower, x))
    IN  [i \in 1..Len(terms) |-> [type |-> terms[i].type, value |-> terms[i].term, confidence |-> 90]]
        \o [i \in 1..Len(metrics) |-> [type |-> "metric", value |-> metrics[i], confidence |-> 80]]
        \o extractTimeEntities(query)

\* the sourceKeywords of identifyDataSources, NLPEngine.ts:179-184
sourceKeywords ==
    << [source |-> Shopify, keywords |-> << <<"p", "r", "o", "d", "u", "c", "t">>, <<"o", "r", "d", "e", "r">>,
         <<"c", "u", "s", "t", "o", "m", "e", "r">>, <<"i", "n", "v", "e", "n", "t", "o", "r", "y">>,
         <<"s", "h", "o", "p", "i", "f", "y">> >>],
       [source |-> Stripe, keywords |-> << <<"p", "a", "y", "m", "e", "n", "t">>,
         <<"s", "u", "b", "s", "c", "r", "i", "p", "t", "i", "o", "n">>,
         <<"r", "e", "v", "e", "n", "u", "e">>,
         <<"t", "r", "a", "n", "s", "a", "c", "t", "i", "o", "n">>,
         <<"s", "t", "r", "i", "p", "e">> >>],
       [source |-> GoogleAnalytics, keywords |-> << <<"t", "r", "a", "f", "f", "i", "c">>, <<"v", "i", "s", "i", "t", "o", "r">>,
         <<"p", "a", "g", "e", "v", "i", "e", "w">>,
         <<"c", "o", "n", "v", "e", "r", "s", "i", "o", "n">>,
         <<"a", "n", "a", "l", "y", "t", "i", "c", "s">> >>],
       [source |-> Salesforce, keywords |-> << <<"l", "e", "a", "d">>,
         <<"o", "p", "p", "o", "r", "t", "u", "n", "i", "t", "y">>,
         <<"a", "c", "c", "o", "u", "n", "t">>, <<"c", "o", "n", "t", "a", "c", "t">>,
         <<"s", "a", "l", "e", "s", "f", "o", "r", "c", "e">> >>] >>

\* identifyDataSources as it would be without the "all" of line 192
identifyDataSourcesOrNone(query) ==
    LET queryLower == ToLowerCase(query)
        hit == SelectSeq(sourceKeywords,
                         LAMBDA sk : matchesPattern(queryLower, sk.keywords))
    IN  [i \in 1..Len(hit) |-> hit[i].source]

\* NLPEngine.identifyDataSources, NLPEngine.ts:175-193
identifyDataSources(query) ==
    LET queryLower == ToLowerCase(query)
        hit == SelectSeq(sourceKeywords,
                         LAMBDA sk : matchesPattern(queryLower, sk.keywords))
        dataSources == [i \in 1..Len(hit) |-> hit[i].source]
    IN  IF Len(dataSources) > 0 THEN dataSources ELSE << <<"a", "l", "l">> >>

\* the keyword sets of identifyOperations, NLPEngine.ts:199-214, in the
\* order of the ifs
operationPatterns ==
    << [operation |-> "sum", patterns |->
          << <<"s", "u", "m">>,
            <<"t", "o", "t", "a", "l">>,
            <<"a", "d", "d">> >>],
       [operation |-> "average", patterns |->
          << <<"a", "v", "e", "r", "a", "g", "e">>,
            <<"m", "e", "a", "n">>,
            <<"a", "v", "g">> >>],
       [operation |-> "count", patterns |->
          << <<"c", "o", "u", "n", "t">>,
            <<"n", "u", "m", "b", "e", "r">>,
            <<"h", "o", "w", " ", "m", "a", "n", "y">> >>],
       [operation |-> "max", patterns |->
          << <<"m", "a", "x">>,
            <<"h", "i", "g", "h", "e", "s", "t">>,
            <<"t", "o", "p">>,
            <<"b", "e", "s", "t">> >>],
       [operation |-> "min", patterns |->
          << <<"m", "i", "n">>,
            <<"l", "o", "w", "e", "s", "t">>,
            <<"b", "o", "t", "t", "o", "m">>,
            <<"w", "o", "r", "s", "t">> >>],
       [operation |-> "group", patterns |->
          << <<"g", "r", "o", "u", "p">>,
            <<"b", "y">>,
            <<"c", "a", "t", "e", "g", "o", "r", "y">> >>] >>

\* NLPEngine.identifyOperations, NLPEngine.ts:195-219
identifyOperations(query) ==
    LET queryLower == ToLowerCase(query)
        hit == SelectSeq(operationPatterns,
                         LAMBDA o : matchesPattern(queryLower, o.patterns))
    IN  [i \in 1..Len(hit) |-> hit[i].operation]

\* NLPEngine.extractTimeRange, NLPEngine.ts:221-240: <<range>>, or <<>> for
\* undefined; t is the clock reading, which lies in the first year of the
\* epoch, so that the start of the year (line 234) is 0
extractTimeRange(query, t) ==
    LET queryLower == ToLowerCase(query)
    IN  IF Includes(queryLower, <<"l", "a", "s", "t", " ", "w", "e", "e", "k">>)
        THEN <<[start |-> t - 7 * 24 * 60 * 60 * 1000, end |-> t, granularity |-> "day"]>>
        ELSE IF Includes(queryLower, <<"l", "a", "s", "t", " ", "m", "o", "n", "t", "h">>)
        THEN <<[start |-> t - 30 * 24 * 60 * 60 * 1000, end |-> t, granularity |-> "day"]>>
        ELSE IF Includes(queryLower, <<"t", "h", "i", "s", " ", "y", "e", "a", "r">>)
        THEN <<[start |-> 0, end |-> t, granularity |-> "month"]>>
        ELSE <<>>

\* assessComplexity as it would be if many entities weighed as much as many
\* sources
assessComplexityHeavyEntities(intent, entities, dataSources) ==
    LET complexity ==
            (IF Len(dataSources) > 1 THEN 2 ELSE 0)
            + (IF Len(entities) > 3 THEN 2 ELSE 0)
            + (IF intent = "compare" \/ intent = "predict" THEN 2 ELSE 0)
    IN  IF complexity <= 1 THEN "simple"
        ELSE IF complexity <= 3 THEN "moderate"
        ELSE "complex"

\* NLPEngine.assessComplexity, NLPEngine.ts:242-252
assessComplexity(intent, entities, dataSources) ==
    LET complexity ==
            (IF Len(dataSources) > 1 THEN 2 ELSE 0)
            + (IF Len(entities) > 3 THEN 1 ELSE 0)
            + (IF intent = "compare" \/ intent = "predict" THEN 2 ELSE 0)
    IN  IF complexity <= 1 THEN "simple"
        ELSE IF complexity <= 3 THEN "moderate"
        ELSE "complex"

\* NLPEngine.processQuery, NLPEngine.ts:32-53 (the structured query)
processQuery(query, t) ==
    [originalQuery |-> query,
     intent |-> extractIntent(query),
     entities |-> extractEntities(query),
     dataSources |-> identifyDataSources(query),
     operations |-> identifyOperations(query),
     timeRange |-> extractTimeRange(query, t),
     complexity |-> assessComplexity(extractIntent(query), extractEntities(query),
                                     identifyDataSources(query))]

\* isTrendQuery as it would be if only the intent counted
isTrendQueryByIntent(pq) == pq.intent = "trend"

\* NLPEngine.isTrendQuery, NLPEngine.ts:305-308
isTrendQuery(pq) ==
    pq.intent = "trend" \/ \E i \in 1..Len(pq.entities) : pq.entities[i].type = "time_range"

\* NLPEngine.isCorrelationQuery, NLPEngine.ts:310-313
isCorrelationQuery(pq) == pq.intent = "compare" \/ Len(pq.dataSources) > 1

\* NLPEngine.generateTrendInsight, NLPEngine.ts:315-326: <<insight>> or <<>> (null)
generateTrendInsight(results, pq) ==
    IF Len(results.data) < 2 THEN <<>>
    ELSE <<[type |-> "trend", title |-> "Trend Analysis", confidence |-> 70]>>

\* NLPEngine.generateCorrelationInsight, NLPEngine.ts:328-338
generateCorrelationInsight(results, pq) ==
    IF Len(pq.dataSources) < 2 THEN <<>>
    ELSE <<[type |-> "correlation", title |-> "Cross-Platform Correlation", confidence |-> 60]>>

\* generateAnomalyInsight as it would be if it needed data to look at
generateAnomalyInsightOnData(results, pq) ==
    IF Len(results.data) = 0 THEN <<>>
    ELSE <<[type |-> "anomaly", title |-> "Data Quality Check", confidence |-> 80]>>

\* NLPEngine.generateAnomalyInsight, NLPEngine.ts:340-348
generateAnomalyInsight(results, pq) ==
    <<[type |-> "anomaly", title |-> "Data Quality Check", confidence |-> 80]>>

\* generateRecommendations as it would be if it did not look at the data
generateRecommendationsWithoutData(results, pq) ==
    IF pq.intent = "retrieve"
    THEN <<[type |-> "recommendation", title |-> "Next Steps", confidence |-> 70,
            recommendations |-> <<"Try asking about trends over time",
                                  "Compare with previous periods",
                                  "Look for correlations with other metrics">>]>>
    ELSE <<>>

\* NLPEngine.generateRecommendations, NLPEngine.ts:350-369
generateRecommendations(results, pq) ==
    IF pq.intent = "retrieve" /\ Len(results.data) > 0
    THEN <<[type |-> "recommendation", title |-> "Next Steps", confidence |-> 70,
            recommendations |-> <<"Try asking about trends over time",
                                  "Compare with previous periods",
                                  "Look for correlations with other metrics">>]>>
    ELSE <<>>

\* NLPEngine.generateInsights, NLPEngine.ts:58-82
generateInsights(results, pq) ==
    (IF isTrendQuery(pq) THEN generateTrendInsight(results, pq) ELSE <<>>)
    \o (IF isCorrelationQuery(pq) THEN generateCorrelationInsight(results, pq) ELSE <<>>)
    \o generateAnomalyInsight(results, pq)
    \o generateRecommendations(results, pq)

\* NLPEngine.formatDataResponse, NLPEngine.ts:371-381: the text, as the
\* sentence chosen and the records it prints
formatDataResponse(results) ==
    IF Len(results.data) = 0 THEN [text |-> "No data found.", shown |-> <<>>]
    ELSE IF Len(results.data) = 1
    THEN [text |-> "Found 1 result", shown |-> <<results.data[1]>>]
    ELSE [text |-> "Found n results", shown |-> SubSeq(results.data, 1, IF Len(results.data) < 5 THEN Len(results.data) ELSE 5)]

\* the sentence of NLPEngine.ts:94
NoDataText == "I couldn't find any data matching your query."

\* formatResponse as it would be without the branch of lines 93-95: the data
\* sentence is always that of formatDataResponse
formatResponseDataOnly(results, insights) ==
    [main |-> formatDataResponse(results),
     count |-> Len(results.data),
     keyInsights |-> [i \in 1..Len(insights) |-> insights[i].title],
     recommendations |->
         Len(SelectSeq(insights, LAMBDA x : x.type = "recommendation"))]

\* NLPEngine.formatResponse, NLPEngine.ts:87-119: the response text, as its
\* three parts (the data sentence, the titles under "Key Insights" and the
\* number of insights listed under "Recommendations")
formatResponse(results, insights) ==
    [main |-> IF Len(results.data) > 0 THEN formatDataResponse(results)
              ELSE [text |-> NoDataText, shown |-> <<>>],
     count |-> Len(results.data),
     keyInsights |-> [i \in 1..Len(insights) |-> insights[i].title],
     recommendations |->
         Len(SelectSeq(insights, LAMBDA x : x.type = "recommendation"))]

----------------------------------------------------------------------------
(* DataConnectorManager, src/src/core/DataConnectorManager.ts *)

\* the types registered by registerConnectorClasses, lines 33-49
connectorClasses ==
    {Shopify, <<"w", "o", "o", "c", "o", "m", "m", "e", "r", "c", "e">>,
     <<"b", "i", "g", "c", "o", "m", "m", "e", "r", "c", "e">>,
     Stripe, <<"p", "a", "y", "p", "a", "l">>, <<"s", "q", "u", "a", "r", "e">>,
     GoogleAnalytics, Salesforce}

\* DataConnectorManager.getRelevantTerms, lines 214-223
getRelevantTerms(connectorType) ==
    IF connectorType = Shopify THEN
    << <<"p", "r", "o", "d", "u", "c", "t">>,
       <<"o", "r", "d", "e", "r">>,
       <<"c", "u", "s", "t", "o", "m", "e", "r">>,
       <<"i", "n", "v", "e", "n", "t", "o", "r", "y">>,
       <<"s", "a", "l", "e", "s">>,
       <<"s", "h", "o", "p", "i", "f", "y">> >>
    ELSE IF connectorType = Stripe THEN
    << <<"p", "a", "y", "m", "e", "n", "t">>,
       <<"s", "u", "b", "s", "c", "r", "i", "p", "t", "i", "o", "n">>,
       <<"r", "e", "v", "e", "n", "u", "e">>,
       <<"t", "r", "a", "n", "s", "a", "c", "t", "i", "o", "n">>,
       <<"s", "t", "r", "i", "p", "e">> >>
    ELSE IF connectorType = GoogleAnalytics THEN
    << <<"t", "r", "a", "f", "f", "i", "c">>,
       <<"v", "i", "s", "i", "t", "o", "r">>,
       <<"p", "a", "g", "e", "v", "i", "e", "w">>,
       <<"c", "o", "n", "v", "e", "r", "s", "i", "o", "n">>,
       <<"a", "n", "a", "l", "y", "t", "i", "c", "s">> >>
    ELSE IF connectorType = Salesforce THEN
    << <<"l", "e", "a", "d">>,
       <<"o", "p", "p", "o", "r", "t", "u", "n", "i", "t", "y">>,
       <<"a", "c", "c", "o", "u", "n", "t">>,
       <<"c", "o", "n", "t", "a", "c", "t">>,
       <<"s", "a", "l", "e", "s", "f", "o", "r", "c", "e">> >>
    ELSE <<connectorType>>

\* DataConnectorManager.isConnectorRelevant, lines 204-212; a connector is
\* known by the type its getType() returns
isConnectorRelevant(connector, processedQuery) ==
    LET queryText == ToLowerCase(processedQuery.originalQuery)
        relevantTerms == getRelevantTerms(ToLowerCase(connector))
    IN  \E i \in 1..Len(relevantTerms) : Includes(queryText, relevantTerms[i])

\* DataConnectorManager.getRelevantConnectors, lines 191-202; conns is the
\* connectors Map in its iteration order
getRelevantConnectors(conns, processedQuery) ==
    SelectSeq(conns, LAMBDA c : isConnectorRelevant(c, processedQuery))

\* the sum of the lengths of the record arrays of the payloads
RECURSIVE sumOfLengths(_, _)
sumOfLengths(results, i) ==
    IF i > Len(results) THEN 0
    ELSE Len(results[i].data) + sumOfLengths(results, i + 1)

\* the record arrays of the payloads, one after the other
RECURSIVE concatData(_, _)
concatData(results, i) ==
    IF i > Len(results) THEN <<>>
    ELSE results[i].data \o concatData(results, i + 1)

\* combineResults as it would be if the empty result had no summary
combineResultsNoSummary(results) ==
    IF Len(results) = 0 THEN [data |-> <<>>]
    ELSE IF Len(results) = 1 THEN results[1]
    ELSE [data |-> concatData(results, 1),
          summary |-> [totalRecords |-> sumOfLengths(results, 1),
                       sources |-> Len(results)]]

\* combineResults as it would be if totalRecords counted the payloads
combineResultsCountsPayloads(results) ==
    IF Len(results) = 0 THEN [data |-> <<>>, summary |-> [totalRecords |-> 0]]
    ELSE IF Len(results) = 1 THEN results[1]
    ELSE [data |-> concatData(results, 1),
          summary |-> [totalRecords |-> Len(results), sources |-> Len(results)]]

\* combineResults as it would be if a single payload were wrapped like several
combineResultsWrapsSingle(results) ==
    IF Len(results) = 0 THEN [data |-> <<>>, summary |-> [totalRecords |-> 0]]
    ELSE [data |-> concatData(results, 1),
          summary |-> [totalRecords |-> sumOfLengths(results, 1),
                       sources |-> Len(results)]]

\* DataConnectorManager.combineResults, lines 225-253
combineResults(results) ==
    IF Len(results) = 0 THEN [data |-> <<>>, summary |-> [totalRecords |-> 0]]
    ELSE IF Len(results) = 1 THEN results[1]
    ELSE [data |-> concatData(results, 1),
          summary |-> [totalRecords |-> sumOfLengths(results, 1),
                       sources |-> Len(results)]]

\* a value thrown: an Error with a message
JsError(message) == [isConversaError |-> FALSE, isError |-> TRUE, message |-> message]

\* lines 86-98: what the wrapped call of one adapter settles to
Settle(type, thrown, result) ==
    IF thrown
    THEN [settled |-> TRUE, type |-> type, success |-> FALSE,
          error |-> IF result.isError THEN result.message ELSE "Unknown error"]
    ELSE [settled |-> TRUE, type |-> type, success |-> TRUE, data |-> result]

\* lines 103-109: the payloads of the successful outcomes, in order
successfulResults(responses) ==
    LET ok == SelectSeq(responses, LAMBDA r : r.success)
    IN  [i \in 1..Len(ok) |-> ok[i].data]

\* BaseConnector.formatData, src/unnamed/part_006:126-136: the payload of an
\* adapter (the timestamp of the payload is left out)
formatData(data, type) ==
    [data |-> data, metadata |-> [source |-> type, count |-> Len(data)]]

----------------------------------------------------------------------------
(* ErrorHandler.handle, src/unnamed/part_000:200-230 *)

\* new ConversaError(...), src/unnamed/part_000:31-51 (without the timestamp)
ConversaError(message, code, context, originalError, isOperational) ==
    [isConversaError |-> TRUE, isError |-> TRUE, message |-> message,
     code |-> code, context |-> context, originalError |-> originalError,
     isOperational |-> isOperational]

\* a thrown value that is not an Error, such as a string
NonError(value) == [isConversaError |-> FALSE, isError |-> FALSE, value |-> value]

handle(error, context) ==
    IF error.isConversaError THEN error
    ELSE ConversaError(IF error.isError THEN error.message ELSE "Unknown error",
                       "UNEXPECTED_ERROR", context, error, FALSE)

\* isRetryable as it would be if every error were retried
isRetryableAlways(error) == TRUE

\* ConversaError.isRetryable, src/unnamed/part_000:102-111
isRetryable(error) ==
    error.code \in {"NETWORK_ERROR", "CACHE_ERROR", "RATE_LIMIT_EXCEEDED",
                    "INTERNAL_SERVER_ERROR"}

\* ConversaError.getRetryDelay, src/unnamed/part_000:116-129. random is the
\* value of Math.random() in thousandths (0..999), so that
\* Math.floor(delay + random * 0.1 * delay) is delay + floor(delay * random / 10000)
getRetryDelay(error, attempt, random) ==
    LET baseDelay == 1000
        maxDelay == 30000
        delay == IF baseDelay * 2^attempt < maxDelay THEN baseDelay * 2^attempt
                 ELSE maxDelay
    IN  IF error.code = "RATE_LIMIT_EXCEEDED" THEN 60000
        ELSE delay + (delay * random) \div 10000

----------------------------------------------------------------------------
(* ConversaBI, src/src/core/ConversaSDK.ts: the state of one SDK object and  *)
(* of the calls of query in progress                                        *)

\* the callers: each awaits its call before it makes the next one
Procs == {1, 2}

\* how many calls of query one behaviour makes
MaxCalls == 2

\* the most records one adapter returns
MaxRecords == 1

\* the longest config.dataSources grows by addDataSource
MaxSources == 2

\* how many calls of addDataSource, removeDataSource and destroy succeed in
\* one behaviour
MaxChanges == 2

\* the messages of query: 'hi', 'hi?', 'sales revenue' and the euro sign
QueryTexts ==
    {<<"h", "i">>, <<"h", "i", "?">>,
     <<"s", "a", "l", "e", "s", " ", "r", "e", "v", "e", "n", "u", "e">>,
     <<"U+20AC">>}

\* the local variables of a call that is not running
IdleLoc ==
    [startTime |-> 0, cacheKey |-> <<>>, cachedResponse |-> Null,
     processedQuery |-> Null, relevant |-> <<>>, responses |-> <<>>,
     results |-> Null, idx |-> 0, dataSource |-> <<>>]

\* the promise of a call: its status is "none" (no call yet), "pending",
\* "resolved" (with a value) or "rejected" (with an error)
Promise(status, value) == [status |-> status, value |-> value]

\* the frame of a caller that has called nothing yet
NoFrame ==
    [method |-> "none", wasInitialized |-> FALSE, sessionId |-> Null,
     reply |-> Promise("none", Null)]

\* the events of the SDK, and how often each has been emitted
EventNames == {"initialized", "platformInitialized", "query", "error",
               "sessionCreated", "message", "dataSourceAdded",
               "dataSourceRemoved", "destroyed"}
emit(ev, name) == [ev EXCEPT ![name] = @ + 1]

\* no SDK object in use (the cache or a function is used on its own)
SdkIdle ==
    /\ isInitialized = FALSE
    /\ nlpInitialized = FALSE
    /\ config = [dataSources |-> <<>>, defined |-> FALSE]
    /\ connectors = <<>>
    /\ events = [e \in EventNames |-> 0]
    /\ calls = 0
    /\ pc = [p \in Procs |-> "idle"]
    /\ msg = [p \in Procs |-> <<>>]
    /\ firstComputed = [m \in QueryTexts |-> Null]
    /\ loc = [p \in Procs |-> IdleLoc]
    /\ returned = [p \in Procs |-> Promise("none", Null)]
    /\ trace = [p \in Procs |-> {}]
    /\ frame = [p \in Procs |-> NoFrame]
    /\ sessions = {}

----------------------------------------------------------------------------
(* The operations of CacheManager as actions *)

\* op: the operation, key and arg: its arguments, ret: the value it returned,
\* removed: the keys whose entries it deleted from the map
Op(name, k, ret, removed) ==
    [op |-> name, key |-> k, arg |-> <<>>, ret |-> ret, removed |-> removed]

\* the keys that are in the map c and no longer in d
Removed(c, d) == MapKeys(c) \ MapKeys(d)

Get(k) ==
    /\ cache' = cacheGet(cache, enabled, k, now)[1]
    /\ lastOp' = Op("get", k, cacheGet(cache, enabled, k, now)[2],
                    Removed(cache, cache'))
    /\ UNCHANGED <<enabled, defaultTimeout, maxSize, now, ticks, fnVars, sdkVars>>

\* what set's eviction (line 51-53) removed, before the insert of line 63
EvictedBySet(c, en, max, t) ==
    IF en /\ Len(c) >= max THEN Removed(c, evictLRU(c, t)) ELSE {}

Set(k, data, timeout) ==
    /\ cache' = cacheSet(cache, enabled, maxSize, defaultTimeout, k, data, timeout, now)
    /\ lastOp' = [Op("set", k, Null, EvictedBySet(cache, enabled, maxSize, now))
                    EXCEPT !.arg = timeout]
    /\ UNCHANGED <<enabled, defaultTimeout, maxSize, now, ticks, fnVars, sdkVars>>

Delete(k) ==
    /\ cache' = MapDelete(cache, k)
    /\ lastOp' = Op("delete", k, Null, Removed(cache, cache'))
    /\ UNCHANGED <<enabled, defaultTimeout, maxSize, now, ticks, fnVars, sdkVars>>

Clear ==
    /\ cache' = <<>>
    /\ lastOp' = Op("clear", <<>>, Null, MapKeys(cache))
    /\ UNCHANGED <<enabled, defaultTimeout, maxSize, now, ticks, fnVars, sdkVars>>

Cleanup ==
    /\ cache' = cacheCleanup(cache, now)
    /\ lastOp' = Op("cleanup", <<>>, Null, Removed(cache, cache'))
    /\ UNCHANGED <<enabled, defaultTimeout, maxSize, now, ticks, fnVars, sdkVars>>

SetEnabledKeepsEntries(b) ==
    /\ enabled' = b
    /\ lastOp' = Op("setEnabled", <<>>, Null, {})
    /\ UNCHANGED <<cache, defaultTimeout, maxSize, now, ticks, fnVars, sdkVars>>

\* CacheManager.setEnabled, CacheManager.ts:125-130
SetEnabled(b) ==
    /\ enabled' = b
    /\ cache' = IF ~b THEN <<>> ELSE cache
    /\ lastOp' = Op("setEnabled", <<>>, Null, Removed(cache, cache'))
    /\ UNCHANGED <<defaultTimeout, maxSize, now, ticks, fnVars, sdkVars>>

\* CacheManager.setTimeout, CacheManager.ts:135-137
SetTimeout(t) ==
    /\ defaultTimeout' = t
    /\ lastOp' = Op("setTimeout", <<>>, Null, {})
    /\ UNCHANGED <<cache, enabled, maxSize, now, ticks, fnVars, sdkVars>>

\* CacheManager.setMaxSize, CacheManager.ts:142-148
SetMaxSize(n) ==
    /\ evictLoop(cache, n, now)[2] > now => ticks < MaxTicks
    /\ maxSize' = n
    /\ cache' = evictLoop(cache, n, now)[1]
    /\ now' = evictLoop(cache, n, now)[2]
    /\ ticks' = IF now' > now THEN ticks + 1 ELSE ticks
    /\ lastOp' = Op("setMaxSize", <<>>, Null, Removed(cache, cache'))
    /\ UNCHANGED <<enabled, defaultTimeout, fnVars, sdkVars>>

\* time passes between two callbacks
Tick(d) ==
    /\ ticks < MaxTicks
    /\ now' = now + d
    /\ ticks' = ticks + 1
    /\ lastOp' = Op("tick", <<>>, Null, {})
    /\ UNCHANGED <<cache, enabled, defaultTimeout, maxSize, fnVars, sdkVars>>

----------------------------------------------------------------------------
(* The cache used on its own: new CacheManager(enabled) and any sequence of *)
(* its public operations.                                                   *)

CacheInit ==
    /\ cache = <<>>
    /\ enabled \in BOOLEAN
    /\ defaultTimeout = DefaultTimeout
    /\ maxSize = DefaultMaxSize
    /\ now = 0
    /\ ticks = 0
    /\ lastOp = Op("new", <<>>, Null, {})
    /\ fnIn = <<>>
    /\ fnOut = <<>>
    /\ SdkIdle

CacheNext ==
    \/ \E k \in CacheKeys : Get(k)
    \/ \E k \in CacheKeys, t \in TimeoutArgs : Set(k, [id |-> "r1"], t)
    \/ \E k \in CacheKeys : Delete(k)
    \/ Clear
    \/ Cleanup
    \/ \E b \in BOOLEAN : SetEnabled(b)
    \/ \E t \in {1000} : SetTimeout(t)
    \/ \E n \in {0, 1, 2} : SetMaxSize(n)
    \/ \E d \in TickSteps : Tick(d)

SpecCache == CacheInit /\ [][CacheNext]_vars

----------------------------------------------------------------------------
(* Properties of the response cache, checked under SpecCache *)

\* C1: after any sequence of cache operations the number of entries never
\* exceeds the configured maximum size.
C1_SizeNeverExceedsMax == Len(cache) <= maxSize

\* C2: a set on an enabled cache that is at capacity evicts exactly one entry
\* before the insert, and that entry has a minimal last-access time among all
\* entries.
C2_SetAtCapacityEvictsLRU ==
    [][(lastOp'.op = "set" /\ enabled /\ Len(cache) > 0 /\ Len(cache) >= maxSize)
         => \E i \in 1..Len(cache) :
               /\ lastOp'.removed = {cache[i].key}
               /\ \A j \in 1..Len(cache) :
                      cache[i].lastAccessed <= cache[j].lastAccessed]_vars

\* C3: a get of a key whose entry's expiry time has passed returns absent and
\* removes that entry (and only that entry) from the cache.
C3_ExpiredGetIsAbsentAndRemoves ==
    [][\A k \in CacheKeys :
          (lastOp'.op = "get" /\ lastOp'.key = k /\ MapHas(cache, k)
             /\ now > MapGet(cache, k).expiresAt)
          => /\ lastOp'.ret = Null
             /\ ~MapHas(cache', k)
             /\ cache' = MapDelete(cache, k)]_vars

\* C3, its case: an entry written with TTL 1000 ms at clock 0 is read at clock
\* 1001 (every TTL of the model is 1000 or more, so an entry that a get at
\* 1001 found expired was written at 0 with TTL 1000); the get returned absent
\* and the entry is gone.
C3_Witness ==
    /\ lastOp.op = "get"
    /\ now = 1001
    /\ lastOp.removed = {lastOp.key}
    /\ lastOp.ret = Null
    /\ ~MapHas(cache, lastOp.key)

\* C4: an entry created by set expires at the clock time of the write plus the
\* per-write ttl when one is given and plus the default TTL otherwise, and no
\* get changes the expiry of an entry it leaves in the cache.
C4_ExpiryIsWriteTimePlusTTL ==
    [][/\ (lastOp'.op = "set" /\ enabled)
          => /\ MapHas(cache', lastOp'.key)
             /\ MapGet(cache', lastOp'.key).expiresAt =
                   now + (IF lastOp'.arg # <<>> THEN lastOp'.arg[1]
                          ELSE defaultTimeout)
       /\ lastOp'.op = "get"
          => \A k \in MapKeys(cache') :
                MapGet(cache', k).expiresAt = MapGet(cache, k).expiresAt]_vars

\* C36: a set of a key that is already in the cache replaces that key's entry
\* and leaves every other entry in the cache, whatever the fill level; only a
\* set that adds a new key to a full cache evicts another entry.
C36_OverwriteEvictsNothing ==
    [][(lastOp'.op = "set" /\ enabled)
         => LET k == lastOp'.key
                others == {i \in 1..Len(cache) : cache[i].key # k}
                kept == {i \in others : \E j \in 1..Len(cache') : cache'[j] = cache[i]}
            IN  /\ MapHas(cache', k)
                /\ MapHas(cache, k) => kept = others
                /\ kept # others => (~MapHas(cache, k) /\ Len(cache) >= maxSize)]_vars

\* C11: setEnabled(false) empties the cache; while the cache is disabled it
\* holds nothing, get returns absent and set stores nothing, so the cache is
\* empty right after setEnabled(true) and stays so until the next set.
C11_DisabledCacheIsEmpty ==
    [][/\ (lastOp'.op = "setEnabled" /\ ~enabled') => cache' = <<>>
       /\ ~enabled => cache = <<>>
       /\ (~enabled /\ lastOp'.op = "get")
          => (lastOp'.ret = Null /\ cache' = cache)
       /\ (~enabled /\ lastOp'.op = "set") => cache' = <<>>
       /\ (~enabled /\ enabled') => cache' = <<>>
       /\ (enabled /\ cache = <<>> /\ cache' # <<>>) => lastOp'.op = "set"]_vars

\* C11, its case: setEnabled(false) has just emptied a cache that held an
\* entry.
C11_Witness ==
    /\ lastOp.op = "setEnabled"
    /\ ~enabled
    /\ lastOp.removed # {}
    /\ cache = <<>>

\* the keys of the map c whose entries have expired at the clock reading t
ExpiredKeys(c, t) == {k \in MapKeys(c) : t > MapGet(c, k).expiresAt}

\* the operation of a step removed the entry of k: a get, a delete or (the
\* amended statement) a set of that key, a cleanup, a clear, disabling, or the
\* capacity eviction of set or setMaxSize
RemovedBy(o, k, en, withOverwrite) ==
    \/ o.op \in {"get", "delete"} /\ o.key = k
    \/ o.op \in {"cleanup", "clear"}
    \/ o.op = "setEnabled" /\ ~en
    \/ o.op \in {"set", "setMaxSize"} /\ k \in o.removed
    \/ withOverwrite /\ o.op = "set" /\ o.key = k

\* what C12 says of getStats and of cleanup: every expired entry that is in
\* the cache is counted in getStats().expiredEntries, and cleanup removes
\* every entry whose expiry has passed and leaves every other entry (and the
\* order of the entries) unchanged
StatsAndCleanup ==
    /\ getStats(cache, now, maxSize).expiredEntries
          = Cardinality(ExpiredKeys(cache, now))
    /\ lastOp'.op = "cleanup"
       => /\ MapKeys(cache') = MapKeys(cache) \ ExpiredKeys(cache, now)
          /\ \A k \in MapKeys(cache') : MapGet(cache', k) = MapGet(cache, k)
          /\ \A i, j \in 1..Len(cache') :
                 i < j => \E a, b \in 1..Len(cache) :
                             a < b /\ cache[a] = cache'[i] /\ cache[b] = cache'[j]

\* C12 (amended): an expired entry is not swept proactively: it stays in the
\* cache, unchanged and counted in getStats().expiredEntries, until a get, a
\* delete or a set of its own key (the set replaces it by a fresh entry),
\* cleanup, clear, disabling or a capacity eviction removes it; cleanup
\* removes every entry whose expiry has passed and leaves every unexpired
\* entry unchanged.
C12_ExpiredStaysUntilRemovedOrOverwritten ==
    [][/\ \A k \in ExpiredKeys(cache, now) :
             \/ MapHas(cache', k) /\ MapGet(cache', k) = MapGet(cache, k)
             \/ RemovedBy(lastOp', k, enabled', TRUE)
       /\ StatsAndCleanup]_vars

\* C12, its case: a cleanup has just removed an expired entry and has left an
\* unexpired one in the cache.
C12_Witness ==
    /\ lastOp.op = "cleanup"
    /\ lastOp.removed # {}
    /\ cache # <<>>
    /\ ExpiredKeys(cache, now) = {}

\* C12 as stated: an expired entry stays in the cache until a get of its own
\* key, cleanup, delete, clear, disabling or a capacity eviction removes it.
C12_ExpiredStaysUntilRemoved ==
    [][/\ \A k \in ExpiredKeys(cache, now) :
             \/ MapHas(cache', k) /\ MapGet(cache', k) = MapGet(cache, k)
             \/ RemovedBy(lastOp', k, enabled', FALSE)
       /\ StatsAndCleanup]_vars

----------------------------------------------------------------------------
(* generateCacheKey on its own: two calls, each with a text and a context   *)

\* the longest query text given to generateCacheKey
MaxKeyTextLen == 3

RECURSIVE TextsUpTo(_, _)
TextsUpTo(alphabet, n) ==
    IF n = 0 THEN {<<>>}
    ELSE TextsUpTo(alphabet, n - 1)
         \cup {Append(t, ch) : t \in TextsUpTo(alphabet, n - 1), ch \in alphabet}

\* the texts over the characters i and ?
KeyTexts == TextsUpTo({"i", "?"}, MaxKeyTextLen)

\* undefined, {} and {"c":"a"}
KeyContexts == {Undefined, Object(<<>>), Object(<< <<<<"c">>, <<"a">>>> >>)}

KeyInit ==
    /\ fnIn \in [text1 : KeyTexts, context1 : KeyContexts,
                 text2 : KeyTexts, context2 : KeyContexts]
    /\ fnOut = <<>>
    /\ cache = <<>>
    /\ enabled = TRUE
    /\ defaultTimeout = DefaultTimeout
    /\ maxSize = DefaultMaxSize
    /\ now = 0
    /\ ticks = 0
    /\ lastOp = Op("new", <<>>, Null, {})
    /\ SdkIdle

\* the two calls of generateCacheKey
GenerateKeys ==
    /\ fnOut = <<>>
    /\ fnOut' = <<generateCacheKey(fnIn.text1, fnIn.context1),
                  generateCacheKey(fnIn.text2, fnIn.context2)>>
    /\ UNCHANGED <<fnIn, cacheVars, sdkVars>>

SpecKey == KeyInit /\ [][GenerateKeys]_vars

\* C10: the cache key is a deterministic function of the query text and the
\* context: identical (text, context) give the identical key, and two calls
\* that differ in the text or in the context give different keys.
C10_KeyDeterministicAndDistinct ==
    fnOut # <<>> =>
        /\ (fnIn.text1 = fnIn.text2 /\ fnIn.context1 = fnIn.context2)
              => fnOut[1] = fnOut[2]
        /\ (fnIn.text1 # fnIn.text2 \/ fnIn.context1 # fnIn.context2)
              => fnOut[1] # fnOut[2]

----------------------------------------------------------------------------
(* The error handler on its own, src/unnamed/part_000: a call of            *)
(* ErrorHandler.retry, of ErrorHandler.handle or of getRetryDelay            *)

\* the largest maxAttempts given to retry
MaxAttempts == 3
\* the largest attempt number given to getRetryDelay
MaxDelayAttempt == 5

\* the values of Math.random(), in thousandths
Randoms == {0, 500, 999}

\* what the operation may throw: ConversaErrors with retryable and
\* non-retryable codes, a plain Error and a string
ErrorInputs ==
    {ConversaError("failed", code, Null, Null, TRUE) :
        code \in {"NETWORK_ERROR", "RATE_LIMIT_EXCEEDED", "AUTHENTICATION_ERROR"}}
    \cup {JsError("Regular error"), NonError("String error")}

ErrorInit ==
    /\ fnIn \in [fn : {"retry"}, maxAttempts : 0..MaxAttempts,
                  script : [1..MaxAttempts ->
                                {[ok |-> TRUE, value |-> "success"]}
                                \cup {[ok |-> FALSE, error |-> e] : e \in ErrorInputs}]]
           \cup [fn : {"handle"}, error : ErrorInputs,
                  context : {Null, [tenantId |-> "test"]}]
           \cup [fn : {"getRetryDelay"}, error : {e \in ErrorInputs : e.isConversaError},
                  attempt : 0..MaxDelayAttempt, random : Randoms]
    /\ fnOut = <<>>
    /\ cache = <<>>
    /\ enabled = TRUE
    /\ defaultTimeout = DefaultTimeout
    /\ maxSize = DefaultMaxSize
    /\ now = 0
    /\ ticks = 0
    /\ lastOp = Op("new", <<>>, Null, {})
    /\ SdkIdle

\* the loop of retry from its head, lines 296-298 and 313: the operation is
\* called when attempt <= maxAttempts, and lastError (undefined so far) is
\* thrown after the loop otherwise
RetryAttempt(st, attempt) ==
    IF attempt <= fnIn.maxAttempts
    THEN [st EXCEPT !.pc = "operation", !.attempt = attempt, !.called = @ + 1]
    ELSE [st EXCEPT !.pc = "done", !.promise = Promise("rejected", st.lastError)]

\* ErrorHandler.retry(operation, maxAttempts) is called
RetryCall ==
    /\ fnIn.fn = "retry"
    /\ fnOut = <<>>
    /\ fnOut' = RetryAttempt([pc |-> "start", attempt |-> 0, called |-> 0,
                              lastError |-> Null, delay |-> 0,
                              promise |-> Promise("pending", Null)], 1)
    /\ UNCHANGED <<fnIn, cacheVars, sdkVars>>

\* the operation settles, lines 298-309: its value is returned; its error is
\* handled and thrown, or the timer of the retry delay is set
OperationSettles ==
    /\ fnIn.fn = "retry"
    /\ fnOut # <<>>
    /\ fnOut.pc = "operation"
    /\ LET outcome == fnIn.script[fnOut.called]
           lastError == handle(outcome.error, Null)
       IN  IF outcome.ok
           THEN fnOut' = [fnOut EXCEPT !.pc = "done",
                                       !.promise = Promise("resolved", outcome.value)]
           ELSE IF ~isRetryable(lastError) \/ fnOut.attempt = fnIn.maxAttempts
           THEN fnOut' = [fnOut EXCEPT !.pc = "done", !.lastError = lastError,
                                       !.promise = Promise("rejected", lastError)]
           ELSE \E random \in Randoms :
                   fnOut' = [fnOut EXCEPT
                                !.pc = "timer", !.lastError = lastError,
                                !.delay = getRetryDelay(lastError, fnOut.attempt - 1,
                                                        random)]
    /\ UNCHANGED <<fnIn, cacheVars, sdkVars>>

\* the timer of line 309 fires and the loop goes on with the next attempt
TimerFires ==
    /\ fnIn.fn = "retry"
    /\ fnOut # <<>>
    /\ fnOut.pc = "timer"
    /\ fnOut' = RetryAttempt(fnOut, fnOut.attempt + 1)
    /\ UNCHANGED <<fnIn, cacheVars, sdkVars>>

\* ErrorHandler.handle(error, context) is called
Handle ==
    /\ fnIn.fn = "handle"
    /\ fnOut = <<>>
    /\ fnOut' = [value |-> handle(fnIn.error, fnIn.context)]
    /\ UNCHANGED <<fnIn, cacheVars, sdkVars>>

\* error.getRetryDelay(attempt) is called
GetRetryDelay ==
    /\ fnIn.fn = "getRetryDelay"
    /\ fnOut = <<>>
    /\ fnOut' = [value |-> getRetryDelay(fnIn.error, fnIn.attempt, fnIn.random)]
    /\ UNCHANGED <<fnIn, cacheVars, sdkVars>>

ErrorNext == RetryCall \/ OperationSettles \/ TimerFires \/ Handle \/ GetRetryDelay

SpecError == ErrorInit /\ [][ErrorNext]_vars

\* the codes the claim C17 lists as retryable
RetryableCodes ==
    {"NETWORK_ERROR", "CACHE_ERROR", "RATE_LIMIT_EXCEEDED", "INTERNAL_SERVER_ERROR"}

\* outcome k of the script is a failure with a retryable error
RetryableFailure(k) ==
    /\ ~fnIn.script[k].ok
    /\ fnIn.script[k].error.isConversaError
    /\ fnIn.script[k].error.code \in RetryableCodes

\* C17: retry calls the operation again only after a failure with a retryable
\* error and never more than maxAttempts times, so it calls it exactly once
\* when the first call succeeds or fails with a non-retryable error; it
\* returns the result of the first call that succeeds, and when all
\* maxAttempts calls fail with retryable errors it rejects with the error of
\* the last call.
C17_RetryUntilSuccessOrLimit ==
    (fnIn.fn = "retry" /\ fnOut # <<>>)
    => /\ fnOut.called <= fnIn.maxAttempts
       /\ \A k \in 1..(fnOut.called - 1) : RetryableFailure(k)
       /\ (fnOut.pc = "done" /\ fnOut.called >= 1)
          => LET last == fnIn.script[fnOut.called]
             IN  /\ last.ok => fnOut.promise = Promise("resolved", last.value)
                 /\ ~last.ok => fnOut.promise.status = "rejected"
                 /\ RetryableFailure(fnOut.called)
                    => /\ fnOut.called = fnIn.maxAttempts
                       /\ fnOut.promise = Promise("rejected", last.error)
       /\ (fnOut.pc # "done" /\ fnOut.called >= 1 /\ fnOut.pc = "timer")
          => RetryableFailure(fnOut.called) /\ fnOut.called < fnIn.maxAttempts

\* C17, its case: with maxAttempts = 3 the operation failed twice with a
\* retryable error and succeeded at the third call, and retry returned its
\* result.
C17_Witness ==
    /\ fnIn.fn = "retry"
    /\ fnOut # <<>>
    /\ fnIn.maxAttempts = 3
    /\ fnOut.pc = "done"
    /\ fnOut.called = 3
    /\ fnOut.promise.status = "resolved"
    /\ fnOut.promise.value = "success"

\* C18: getRetryDelay(attempt) is 60000 ms for RATE_LIMIT_EXCEEDED errors at
\* every attempt; for every other error it is more than 1000 ms from attempt
\* 1 on, grows strictly with the attempt number over attempts 1, 2, 3
\* whatever jitter is drawn, and is never above the 30000 ms maximum delay.
C18_RetryDelayBounds ==
    (fnIn.fn = "getRetryDelay" /\ fnOut # <<>>)
    => IF fnIn.error.code = "RATE_LIMIT_EXCEEDED"
       THEN fnOut.value = 60000
       ELSE /\ fnIn.attempt >= 1 => fnOut.value > 1000
            /\ fnIn.attempt \in {2, 3}
               => \A r \in Randoms :
                     getRetryDelay(fnIn.error, fnIn.attempt - 1, r) < fnOut.value
            /\ fnOut.value <= 30000

\* C19: handle returns a ConversaError for every input: the error itself
\* when given a ConversaError; otherwise a new error with code
\* UNEXPECTED_ERROR, the supplied context and the original value kept as
\* originalError, whose message is the Error's message or, for a string that
\* was thrown, that string.
C19_HandleAlwaysConversaError ==
    (fnIn.fn = "handle" /\ fnOut # <<>>)
    => /\ fnOut.value.isConversaError
       /\ fnIn.error.isConversaError => fnOut.value = fnIn.error
       /\ ~fnIn.error.isConversaError
          => /\ fnOut.value.code = "UNEXPECTED_ERROR"
             /\ fnOut.value.context = fnIn.context
             /\ fnOut.value.originalError = fnIn.error
             /\ fnOut.value.message = (IF fnIn.error.isError THEN fnIn.error.message
                                       ELSE fnIn.error.value)

----------------------------------------------------------------------------
(* ConversaBI.query and the init it runs, src/src/core/ConversaSDK.ts:59-189, *)
(* one action per stretch of code between two awaits                        *)

\* config.dataSources, by type: hosted mode and a local configuration
SdkConfigs == {<<>>, <<Shopify, Stripe>>}

\* what an adapter may return: a payload of 0..MaxRecords records of its own
AdapterPayloads(type) ==
    {formatData([j \in 1..n |-> [source |-> type, id |-> j]], type) : n \in 0..MaxRecords}

\* what an adapter, the orchestrator or the network may throw
Thrown == {JsError("request failed")}

\* no operation on the cache in this step
NoOp == Op("none", <<>>, Null, {})

\* ConversaBI.assessQueryComplexity, ConversaSDK.ts:344-353
assessQueryComplexity(query) ==
    IF Len(query.dataSources) = 1 /\ Len(query.operations) <= 2 THEN "simple"
    ELSE IF Len(query.dataSources) <= 3 /\ Len(query.operations) <= 5 THEN "moderate"
    ELSE "complex"

\* lines 135-141 as they would be if the cached response were returned as it
\* was stored
hitResponseUnmarked(cachedResponse) == cachedResponse

\* lines 135-141: the cached response with metadata.cacheHit set
hitResponse(cachedResponse) ==
    [cachedResponse EXCEPT !.metadata.cacheHit = TRUE]

\* lines 160-173: the response of a computed query; t is the clock reading
buildResponse(message, results, processedQuery, sources, startTime, t) ==
    [id |-> t,
     query |-> message,
     response |-> formatResponse(results, generateInsights(results, processedQuery)),
     data |-> results,
     insights |-> generateInsights(results, processedQuery),
     metadata |-> [processingTime |-> t - startTime,
                   dataSources |-> sources,
                   cacheHit |-> FALSE,
                   queryComplexity |-> assessQueryComplexity(processedQuery)],
     timestamp |-> t]

\* the connectors map as it would be if it held one entry per addConnector call
connectorsSetAppends(conns, type) == Append(conns, type)

\* Map.set on the connectors map, kept as the sequence of its keys
connectorsSet(conns, type) ==
    IF \E i \in 1..Len(conns) : conns[i] = type THEN conns ELSE Append(conns, type)

\* the call of p ends: its promise settles and its locals are gone
Return(p, promise) ==
    /\ pc' = [pc EXCEPT ![p] = "done"]
    /\ returned' = [returned EXCEPT ![p] = promise]
    /\ loc' = [loc EXCEPT ![p] = IdleLoc]

\* init's catch as it would be if it let the call go on as though init had
\* returned
InitFailResolves(p, error) ==
    /\ Return(p, Promise("resolved", [response |-> Null]))
    /\ UNCHANGED <<cacheVars, fnVars, isInitialized, nlpInitialized, config,
                   connectors, events, calls, msg, frame, sessions, firstComputed,
                   trace>>

\* init's catch, lines 82-87: the call of query rejects with the handled error
\* (line 120 is outside query's try, no 'error' event)
InitFail(p, error) ==
    /\ Return(p, Promise("rejected", handle(error, [operation |-> "initialize"])))
    /\ UNCHANGED <<cacheVars, fnVars, isInitialized, nlpInitialized, config,
                   connectors, events, calls, msg, frame, sessions, firstComputed, trace>>

\* lines 70-74 from data source i on: addConnector (DataConnectorManager.ts:
\* 54-62) looks the class up and starts the connector's initialize; after the
\* last data source nlpEngine.initialize() runs
InitFrom(p, i, conns) ==
    IF i <= Len(config.dataSources)
    THEN IF config.dataSources[i] \in connectorClasses
         THEN /\ pc' = [pc EXCEPT ![p] = "init_connector"]
              /\ loc' = [loc EXCEPT ![p].idx = i, ![p].dataSource = config.dataSources[i]]
              /\ connectors' = conns
              /\ UNCHANGED <<cacheVars, fnVars, isInitialized, nlpInitialized,
                             config, events, calls, msg, frame, sessions, firstComputed,
                             returned, trace>>
         ELSE /\ connectors' = conns
              /\ Return(p, Promise("rejected", handle(JsError("Unsupported data source type"),
                                           [operation |-> "initialize"])))
              /\ UNCHANGED <<cacheVars, fnVars, isInitialized, nlpInitialized,
                             config, events, calls, msg, frame, sessions, firstComputed, trace>>
    ELSE /\ pc' = [pc EXCEPT ![p] = "init_end"]
         /\ nlpInitialized' = TRUE
         /\ connectors' = conns
         /\ UNCHANGED <<cacheVars, fnVars, isInitialized, config, events,
                        calls, msg, frame, sessions, firstComputed, loc, returned, trace>>

\* mcpOrchestrator.initialize() settles (line 68)
InitOrchestratorSettle(p, ok) ==
    /\ pc[p] = "init_orchestrator"
    /\ IF ok THEN InitFrom(p, 1, connectors)
       ELSE \E e \in Thrown : InitFail(p, e)

\* the connector's initialize() settles (DataConnectorManager.ts:62-64)
InitConnectorSettle(p, ok) ==
    /\ pc[p] = "init_connector"
    /\ IF ok THEN InitFrom(p, loc[p].idx + 1,
                           connectorsSet(connectors, loc[p].dataSource))
       ELSE \E e \in Thrown : InitFail(p, e)

\* initializeWithHostedPlatform, lines 93-113: the fetch settles
InitHostedSettle(p, ok) ==
    /\ pc[p] = "init_hosted"
    /\ IF ok
       THEN /\ pc' = [pc EXCEPT ![p] = "init_end"]
            /\ events' = emit(events, "platformInitialized")
            /\ UNCHANGED <<cacheVars, fnVars, isInitialized, nlpInitialized,
                           config, connectors, calls, msg, frame, sessions, firstComputed,
                           loc, returned, trace>>
       ELSE \E e \in Thrown : InitFail(p, e)

\* lines 80-81
InitEnd(p) ==
    /\ pc[p] = "init_end"
    /\ isInitialized' = TRUE
    /\ events' = emit(events, "initialized")
    /\ pc' = [pc EXCEPT ![p] = "init_return"]
    /\ UNCHANGED <<cacheVars, fnVars, nlpInitialized, config, connectors,
                   calls, msg, frame, sessions, firstComputed, loc, returned, trace>>

\* query's catch, lines 180-188, as it would be if it swallowed the error
QueryFailSwallows(p, error) ==
    /\ Return(p, Promise("resolved", [response |-> Null]))
    /\ UNCHANGED events

\* query's catch, lines 180-188
QueryFail(p, error) ==
    /\ Return(p, Promise("rejected", handle(error, [operation |-> "query"])))
    /\ events' = emit(events, "error")

\* query as it would be if a failure before the lookup dropped the cache
QueryStartDropsCacheOnFailure(p, message) ==
    IF Len(config.dataSources) = 0
    THEN /\ pc' = [pc EXCEPT ![p] = "hosted"]
         /\ loc' = [loc EXCEPT ![p] = [IdleLoc EXCEPT !.startTime = now]]
         /\ returned' = [returned EXCEPT ![p] = Promise("pending", Null)]
         /\ lastOp' = NoOp
         /\ UNCHANGED <<cache, enabled, defaultTimeout, maxSize, now, ticks, events>>
    ELSE IF btoaThrows(message)
    THEN /\ QueryFail(p, JsError("Invalid character"))
         /\ lastOp' = NoOp
         /\ cache' = <<>>
         /\ UNCHANGED <<enabled, defaultTimeout, maxSize, now, ticks>>
    ELSE LET cacheKey == generateCacheKey(message, Undefined)
             got == cacheGet(cache, enabled, cacheKey, now)
         IN  /\ pc' = [pc EXCEPT ![p] = "lookup"]
             /\ cache' = got[1]
             /\ loc' = [loc EXCEPT ![p] = [IdleLoc EXCEPT !.startTime = now,
                                                         !.cacheKey = cacheKey,
                                                         !.cachedResponse = got[2]]]
             /\ returned' = [returned EXCEPT ![p] = Promise("pending", Null)]
             /\ lastOp' = Op("get", cacheKey, got[2], Removed(cache, got[1]))
             /\ UNCHANGED <<enabled, defaultTimeout, maxSize, now, ticks, events>>

\* lines 123-133: the clock is read, and in local mode the key is made and
\* cacheManager.get runs; in hosted mode the fetch of line 195 starts. btoa
\* (line 339) throws on a message with a character outside Latin-1, which
\* query's catch handles
QueryStart(p, message) ==
    IF Len(config.dataSources) = 0
    THEN /\ pc' = [pc EXCEPT ![p] = "hosted"]
         /\ loc' = [loc EXCEPT ![p] = [IdleLoc EXCEPT !.startTime = now]]
         /\ returned' = [returned EXCEPT ![p] = Promise("pending", Null)]
         /\ lastOp' = NoOp
         /\ UNCHANGED <<cache, enabled, defaultTimeout, maxSize, now, ticks, events>>
    ELSE IF btoaThrows(message)
    THEN /\ QueryFail(p, JsError("Invalid character"))
         /\ lastOp' = NoOp
         /\ UNCHANGED <<cache, enabled, defaultTimeout, maxSize, now, ticks>>
    ELSE LET cacheKey == generateCacheKey(message, Undefined)
             got == cacheGet(cache, enabled, cacheKey, now)
         IN  /\ pc' = [pc EXCEPT ![p] = "lookup"]
             /\ cache' = got[1]
             /\ loc' = [loc EXCEPT ![p] = [IdleLoc EXCEPT !.startTime = now,
                                                         !.cacheKey = cacheKey,
                                                         !.cachedResponse = got[2]]]
             /\ returned' = [returned EXCEPT ![p] = Promise("pending", Null)]
             /\ lastOp' = Op("get", cacheKey, got[2], Removed(cache, got[1]))
             /\ UNCHANGED <<enabled, defaultTimeout, maxSize, now, ticks, events>>

\* p may make a call: it has none in progress
CanCall(p) ==
    /\ pc[p] \in {"idle", "done"}
    /\ frame[p].reply.status # "pending"
    /\ calls < MaxCalls

\* query(message) is called, by the caller p itself or by its sendMessage
\* (fr is the frame): lines 119-121, and on an initialized SDK the lines up
\* to the first await
Query(p, message, fr) ==
    /\ CanCall(p)
    /\ calls' = calls + 1
    /\ msg' = [msg EXCEPT ![p] = message]
    /\ frame' = [frame EXCEPT ![p] = fr]
    /\ UNCHANGED <<firstComputed, sessions>>
    /\ trace' = [trace EXCEPT ![p] = {}]
    /\ IF isInitialized
       THEN /\ QueryStart(p, message)
            /\ UNCHANGED <<fnVars, isInitialized, nlpInitialized, config,
                           connectors>>
       ELSE /\ pc' = [pc EXCEPT ![p] =
                         IF Len(config.dataSources) > 0 THEN "init_orchestrator"
                         ELSE "init_hosted"]
            /\ returned' = [returned EXCEPT ![p] = Promise("pending", Null)]
            /\ UNCHANGED <<cache, enabled, defaultTimeout, maxSize, now, ticks, fnVars,
                           isInitialized, nlpInitialized, config, connectors,
                           events, loc>>
            /\ lastOp' = NoOp

\* a caller calls query(message)
QueryCall(p, message) ==
    Query(p, message, [NoFrame EXCEPT !.method = "query"])

\* line 120 resumes after init has returned
QueryResume(p) ==
    /\ pc[p] = "init_return"
    /\ frame[p].method # "init"
    /\ QueryStart(p, msg[p])
    /\ UNCHANGED <<fnVars, isInitialized, nlpInitialized, config, connectors,
                   calls, msg, frame, sessions, firstComputed, trace>>

\* init() as it would be without the test of line 60
InitCallAgain(p) ==
    /\ CanCall(p)
    /\ calls' = calls + 1
    /\ frame' = [frame EXCEPT ![p] = [NoFrame EXCEPT !.method = "init",
                                                      !.wasInitialized = isInitialized]]
    /\ trace' = [trace EXCEPT ![p] = {}]
    /\ pc' = [pc EXCEPT ![p] =
                 IF Len(config.dataSources) > 0 THEN "init_orchestrator"
                 ELSE "init_hosted"]
    /\ returned' = [returned EXCEPT ![p] = Promise("pending", Null)]
    /\ lastOp' = NoOp
    /\ UNCHANGED <<cache, enabled, defaultTimeout, maxSize, now, ticks, fnVars,
                   isInitialized, nlpInitialized, config, connectors, events,
                   msg, loc, firstComputed, sessions>>

\* a caller calls init(): lines 59-68 and 77; an initialized SDK returns at
\* once
InitCall(p) ==
    /\ CanCall(p)
    /\ calls' = calls + 1
    /\ frame' = [frame EXCEPT ![p] = [NoFrame EXCEPT !.method = "init",
                                                      !.wasInitialized = isInitialized]]
    /\ trace' = [trace EXCEPT ![p] = {}]
    /\ pc' = [pc EXCEPT ![p] =
                 IF isInitialized THEN "done"
                 ELSE IF Len(config.dataSources) > 0 THEN "init_orchestrator"
                 ELSE "init_hosted"]
    /\ returned' = [returned EXCEPT ![p] =
                       IF isInitialized THEN Promise("resolved", Null)
                       ELSE Promise("pending", Null)]
    /\ lastOp' = NoOp
    /\ UNCHANGED <<cache, enabled, defaultTimeout, maxSize, now, ticks, fnVars,
                   isInitialized, nlpInitialized, config, connectors, events,
                   msg, loc, firstComputed, sessions>>

\* init() returns to the caller that awaited it (line 88)
InitReturn(p) ==
    /\ pc[p] = "init_return"
    /\ frame[p].method = "init"
    /\ Return(p, Promise("resolved", Null))
    /\ lastOp' = NoOp
    /\ UNCHANGED <<cache, enabled, defaultTimeout, maxSize, now, ticks, fnVars,
                   isInitialized, nlpInitialized, config, connectors, events,
                   calls, msg, frame, sessions, firstComputed, trace>>

\* createChatSession, lines 217-229: the id is session_<clock>_<random>
CreateChatSession(p, random) ==
    /\ CanCall(p)
    /\ calls' = calls + 1
    /\ sessions' = sessions \cup {<<"session", now, random>>}
    /\ events' = emit(events, "sessionCreated")
    /\ frame' = [frame EXCEPT ![p] =
                    [method |-> "createChatSession", wasInitialized |-> FALSE,
                     sessionId |-> <<"session", now, random>>,
                     reply |-> Promise("resolved", <<"session", now, random>>)]]
    /\ lastOp' = NoOp
    /\ UNCHANGED <<cache, enabled, defaultTimeout, maxSize, now, ticks, fnVars,
                   isInitialized, nlpInitialized, config, connectors,
                   pc, msg, loc, returned, trace, firstComputed>>

\* sendMessage(sessionId, message), lines 234-247: the user message is made
\* and query is called
SendMessageCall(p, sessionId, message) ==
    Query(p, message, [method |-> "sendMessage", wasInitialized |-> FALSE,
                       sessionId |-> sessionId,
                       reply |-> Promise("pending", Null)])

\* sendMessage, lines 247-258: the query has settled; its rejection is
\* sendMessage's, and its response becomes the assistant message
SendMessageReturn(p) ==
    /\ pc[p] = "done"
    /\ frame[p].method = "sendMessage"
    /\ frame[p].reply.status = "pending"
    /\ IF returned[p].status = "resolved"
       THEN /\ frame' = [frame EXCEPT ![p].reply =
                            Promise("resolved",
                                    [role |-> "assistant",
                                     content |-> returned[p].value.response])]
            /\ events' = emit(events, "message")
       ELSE /\ frame' = [frame EXCEPT ![p].reply = returned[p]]
            /\ UNCHANGED events
    /\ lastOp' = NoOp
    /\ UNCHANGED <<cache, enabled, defaultTimeout, maxSize, now, ticks, fnVars,
                   isInitialized, nlpInitialized, config, connectors,
                   calls, pc, msg, loc, returned, trace, firstComputed, sessions>>

\* queryHostedPlatform, lines 194-212: the fetch settles
QueryHostedSettle(p, ok) ==
    /\ pc[p] = "hosted"
    /\ IF ok
       THEN /\ Return(p, Promise("resolved", [hosted |-> TRUE, query |-> msg[p],
                                                 response |-> "hosted"]))
            /\ UNCHANGED events
       ELSE \E e \in Thrown : QueryFail(p, e)
    /\ lastOp' = NoOp
    /\ UNCHANGED <<cache, enabled, defaultTimeout, maxSize, now, ticks, fnVars,
                   isInitialized, nlpInitialized, config, connectors,
                   calls, msg, frame, sessions, firstComputed, trace>>

\* lines 134-145: a cached response is returned with cacheHit set; otherwise
\* nlpEngine.processQuery runs
QueryLookedUp(p) ==
    /\ pc[p] = "lookup"
    /\ IF loc[p].cachedResponse # Null
       THEN /\ Return(p, Promise("resolved", hitResponse(loc[p].cachedResponse)))
            /\ UNCHANGED <<nlpInitialized, trace>>
       ELSE /\ pc' = [pc EXCEPT ![p] = "processed"]
            /\ nlpInitialized' = TRUE
            /\ loc' = [loc EXCEPT ![p].processedQuery = processQuery(msg[p], now)]
            /\ trace' = [trace EXCEPT ![p] = @ \cup {"processQuery"}]
            /\ UNCHANGED returned
    /\ lastOp' = NoOp
    /\ UNCHANGED <<cache, enabled, defaultTimeout, maxSize, now, ticks, fnVars,
                   isInitialized, config, connectors, events, calls, msg, frame, sessions,
                   firstComputed>>

\* DataConnectorManager.executeQuery, lines 82-100: the relevant connectors
\* are chosen and executeQuery is called on each of them, one call in flight
\* per connector
startAll(relevant) == [i \in 1..Len(relevant) |-> [settled |-> FALSE, type |-> relevant[i]]]

\* DataConnectorManager.executeQuery up to its await, in the call of p
StartBatch(p, processedQuery) ==
    LET relevant == getRelevantConnectors(connectors, processedQuery)
    IN  /\ loc' = [loc EXCEPT ![p].processedQuery = processedQuery,
                              ![p].relevant = relevant,
                              ![p].responses = startAll(relevant)]
        /\ trace' = [trace EXCEPT ![p] =
                        @ \cup {"executeQuery"}
                          \cup (IF Len(relevant) > 0 THEN {"adapter"} ELSE {})]

\* lines 148-151 and DataConnectorManager.executeQuery up to its await
ExecuteQuery(p) ==
    /\ pc[p] = "processed"
    /\ StartBatch(p, loc[p].processedQuery)
    /\ pc' = [pc EXCEPT ![p] = "waiting"]
    /\ lastOp' = NoOp
    /\ UNCHANGED <<cache, enabled, defaultTimeout, maxSize, now, ticks, fnVars,
                   isInitialized, nlpInitialized, config, connectors, events,
                   calls, msg, frame, sessions, firstComputed, returned>>

\* the call of adapter i of p's batch settles: it returns a payload or throws
AdapterSettle(p, i, thrown, result) ==
    /\ pc[p] = "waiting"
    /\ i \in 1..Len(loc[p].responses)
    /\ ~loc[p].responses[i].settled
    /\ loc' = [loc EXCEPT ![p].responses[i] =
                   Settle(loc[p].responses[i].type, thrown, result)]
    /\ lastOp' = NoOp
    /\ UNCHANGED <<cache, enabled, defaultTimeout, maxSize, now, ticks, fnVars,
                   isInitialized, nlpInitialized, config, connectors, events,
                   calls, msg, frame, sessions, firstComputed, pc, returned, trace>>

\* the adapter's executeQuery rejects
AdapterThrows(p, i) == \E e \in Thrown : AdapterSettle(p, i, TRUE, e)

\* the adapter's executeQuery resolves with a payload
AdapterReturns(p, i) ==
    /\ pc[p] = "waiting"
    /\ i \in 1..Len(loc[p].responses)
    /\ \E r \in AdapterPayloads(loc[p].responses[i].type) :
          AdapterSettle(p, i, FALSE, r)

\* Promise.all of line 100 as it would be if it resolved with the first
\* settled call
anySettled(responses) ==
    Len(responses) = 0 \/ \E i \in 1..Len(responses) : responses[i].settled

\* Promise.all of line 100 resolves once every call of the batch has settled
allSettled(responses) == \A i \in 1..Len(responses) : responses[i].settled

\* executeQuery as it would be with a timeout of the whole query: it returns
\* with the outcomes it has once DefaultTimeout ms have passed
ExecuteQueryTimesOut(p) ==
    /\ pc[p] = "waiting"
    /\ allSettled(loc[p].responses) \/ now - loc[p].startTime >= DefaultTimeout
    /\ loc' = [loc EXCEPT ![p].results =
                   combineResults(successfulResults(
                       SelectSeq(loc[p].responses, LAMBDA r : r.settled)))]
    /\ pc' = [pc EXCEPT ![p] = "joined"]
    /\ lastOp' = NoOp
    /\ UNCHANGED <<cache, enabled, defaultTimeout, maxSize, now, ticks, fnVars,
                   isInitialized, nlpInitialized, config, connectors, events,
                   calls, msg, frame, sessions, firstComputed, returned, trace>>

\* DataConnectorManager.executeQuery, lines 100-111: the outcomes are in,
\* the successful payloads are combined and executeQuery returns
ExecuteQueryReturn(p) ==
    /\ pc[p] = "waiting"
    /\ allSettled(loc[p].responses)
    /\ loc' = [loc EXCEPT ![p].results =
                   combineResults(successfulResults(
                       SelectSeq(loc[p].responses, LAMBDA r : r.settled)))]
    /\ pc' = [pc EXCEPT ![p] = "joined"]
    /\ lastOp' = NoOp
    /\ UNCHANGED <<cache, enabled, defaultTimeout, maxSize, now, ticks, fnVars,
                   isInitialized, nlpInitialized, config, connectors, events,
                   calls, msg, frame, sessions, firstComputed, returned, trace>>

\* lines 153-179: insights, the response text, the response, the write to the
\* cache, the 'query' event and the return
QueryFinish(p) ==
    /\ pc[p] = "joined"
    /\ LET response == buildResponse(msg[p], loc[p].results, loc[p].processedQuery,
                                     config.dataSources, loc[p].startTime, now)
       IN  /\ cache' = cacheSet(cache, enabled, maxSize, defaultTimeout,
                                loc[p].cacheKey, response, <<>>, now)
           /\ lastOp' = Op("set", loc[p].cacheKey, Null,
                           EvictedBySet(cache, enabled, maxSize, now))
           /\ Return(p, Promise("resolved", response))
           /\ firstComputed' = IF firstComputed[msg[p]] = Null
                                THEN [firstComputed EXCEPT ![msg[p]] = response]
                                ELSE firstComputed
    /\ events' = emit(events, "query")
    /\ trace' = [trace EXCEPT ![p] = @ \cup {"generateInsights", "formatResponse"}]
    /\ UNCHANGED <<enabled, defaultTimeout, maxSize, now, ticks, fnVars,
                   isInitialized, nlpInitialized, config, connectors,
                   calls, msg, frame, sessions>>

\* new ConversaBI(config): the constructor, lines 46-54
SdkInit ==
    /\ cache = <<>>
    /\ enabled \in BOOLEAN
    /\ defaultTimeout = DefaultTimeout
    /\ maxSize = DefaultMaxSize
    /\ now = 0
    /\ ticks = 0
    /\ lastOp = Op("new", <<>>, Null, {})
    /\ fnIn = <<>>
    /\ fnOut = <<>>
    /\ isInitialized = FALSE
    /\ nlpInitialized = FALSE
    /\ config \in {[dataSources |-> ds, defined |-> ds # <<>>] : ds \in SdkConfigs}
    /\ connectors = <<>>
    /\ events = [e \in EventNames |-> 0]
    /\ calls = 0
    /\ pc = [p \in Procs |-> "idle"]
    /\ msg = [p \in Procs |-> <<>>]
    /\ firstComputed = [m \in QueryTexts |-> Null]
    /\ loc = [p \in Procs |-> IdleLoc]
    /\ returned = [p \in Procs |-> Promise("none", Null)]
    /\ trace = [p \in Procs |-> {}]
    /\ frame = [p \in Procs |-> NoFrame]
    /\ sessions = {}

\* the SDK is used by one caller
SdkCallers == {1}

SdkNext ==
    \/ \E p \in SdkCallers, m \in QueryTexts : QueryCall(p, m)
    \/ \E p \in SdkCallers : InitCall(p)
    \/ \E p \in SdkCallers : InitReturn(p)
    \/ \E p \in SdkCallers : CreateChatSession(p, 1)
    \/ \E p \in SdkCallers, id \in sessions \cup {<<"non-existent-session">>} :
          SendMessageCall(p, id, <<"h", "i">>)
    \/ \E p \in SdkCallers : SendMessageReturn(p)
    \/ \E p \in SdkCallers, ok \in BOOLEAN : InitOrchestratorSettle(p, ok)
    \/ \E p \in SdkCallers, ok \in BOOLEAN : InitConnectorSettle(p, ok)
    \/ \E p \in SdkCallers, ok \in BOOLEAN : InitHostedSettle(p, ok)
    \/ \E p \in SdkCallers : InitEnd(p)
    \/ \E p \in SdkCallers : QueryResume(p)
    \/ \E p \in SdkCallers, ok \in BOOLEAN : QueryHostedSettle(p, ok)
    \/ \E p \in SdkCallers : QueryLookedUp(p)
    \/ \E p \in SdkCallers : ExecuteQuery(p)
    \/ \E p \in SdkCallers, i \in 1..Cardinality(connectorClasses) : AdapterThrows(p, i)
    \/ \E p \in SdkCallers, i \in 1..Cardinality(connectorClasses) : AdapterReturns(p, i)
    \/ \E p \in SdkCallers : ExecuteQueryReturn(p)
    \/ \E p \in SdkCallers : QueryFinish(p)
    \/ \E d \in {1, DefaultTimeout} : Tick(d)

SpecSDK == SdkInit /\ [][SdkNext]_vars

\* Every call of an adapter that is in flight settles in the end (the
\* hypothesis under which a query is said to return), and the event loop runs
\* the continuations of executeQuery and of query once their awaits are over.
QueryFairness ==
    \A p \in SdkCallers :
        /\ WF_vars(\E i \in 1..Cardinality(connectorClasses) :
                      AdapterThrows(p, i) \/ AdapterReturns(p, i))
        /\ WF_vars(ExecuteQueryReturn(p))
        /\ WF_vars(QueryFinish(p))

SpecSDKFair == SpecSDK /\ QueryFairness

----------------------------------------------------------------------------
(* Properties of query, checked under SpecSDK *)

\* the key query makes for a message (line 132)
KeyOf(message) == generateCacheKey(message, Undefined)

\* the aggregated result of no successful source
EmptyResult == [data |-> <<>>, summary |-> [totalRecords |-> 0]]

\* C5: the cache lookup precedes the pipeline. A call of query that finds an
\* unexpired entry under the key of its text gets the entry's response from
\* the lookup, and a call whose lookup found a response returns exactly that
\* response with metadata.cacheHit = true, having invoked neither the
\* extractor, nor an adapter, nor the insight synthesizer or the formatter.
C5_CacheHitSkipsPipeline ==
    [][\A p \in Procs :
          /\ (/\ pc[p] # "lookup" /\ pc'[p] = "lookup"
              /\ enabled
              /\ MapHas(cache, KeyOf(msg'[p]))
              /\ ~(now > MapGet(cache, KeyOf(msg'[p])).expiresAt))
             => loc'[p].cachedResponse = MapGet(cache, KeyOf(msg'[p])).data
          /\ (/\ pc[p] = "lookup" /\ pc'[p] # "lookup"
              /\ loc[p].cachedResponse # Null)
             => /\ pc'[p] = "done"
                /\ returned'[p].status = "resolved"
                /\ returned'[p].value.metadata.cacheHit = TRUE
                /\ returned'[p].value =
                      [loc[p].cachedResponse EXCEPT !.metadata.cacheHit = TRUE]
                /\ trace'[p] = {}]_vars

\* C5, its case: a call in local mode has returned a response marked as a
\* cache hit, the response of an earlier call with the same text, and has
\* invoked no component of the pipeline.
C5_Witness ==
    \E p \in Procs :
        /\ pc[p] = "done"
        /\ frame[p].method = "query"
        /\ Len(config.dataSources) > 0
        /\ returned[p].status = "resolved"
        /\ returned[p].value.metadata.cacheHit = TRUE
        /\ returned[p].value.query = msg[p]
        /\ trace[p] = {}

\* C6: in local mode with the cache enabled, a call of query that resolves
\* when no response has been computed for its text before (the first query
\* for the text) returns a computed response, metadata.cacheHit = false, which
\* is in the cache under the text's key when the call returns; and a call
\* with the same text whose lookup is made within the default TTL of the
\* first one's write returns metadata.cacheHit = true and the response text
\* of the first.
C6_FirstComputesThenHits ==
    [][\A p \in Procs :
          (/\ pc[p] # "done" /\ pc'[p] = "done"
           /\ frame[p].method \in {"query", "sendMessage"}
           /\ returned'[p].status = "resolved"
           /\ Len(config.dataSources) > 0
           /\ enabled)
          => /\ firstComputed[msg[p]] = Null
                => /\ returned'[p].value.metadata.cacheHit = FALSE
                   /\ MapHas(cache', KeyOf(msg[p]))
                   /\ MapGet(cache', KeyOf(msg[p])).data = returned'[p].value
             /\ (/\ firstComputed[msg[p]] # Null
                 /\ loc[p].startTime <=
                       firstComputed[msg[p]].timestamp + defaultTimeout)
                => /\ returned'[p].value.metadata.cacheHit = TRUE
                   /\ returned'[p].value.response =
                         firstComputed[msg[p]].response]_vars

\* C9: when every adapter of the batch has failed, or the batch is empty,
\* executeQuery returns the empty record set with totalRecords 0, and query
\* resolves with a response whose data is that empty set and whose text is
\* the no-data sentence; a call of query that has reached the adapters is
\* never rejected.
C9_AllFailedStillResolves ==
    [][\A p \in Procs :
          /\ (/\ pc[p] = "waiting" /\ pc'[p] = "joined"
              /\ \A i \in 1..Len(loc[p].responses) : ~loc[p].responses[i].success)
             => loc'[p].results = EmptyResult
          /\ (/\ pc[p] = "joined" /\ pc'[p] # "joined"
              /\ \A i \in 1..Len(loc[p].responses) : ~loc[p].responses[i].success)
             => /\ returned'[p].status = "resolved"
                /\ returned'[p].value.data = EmptyResult
                /\ Len(returned'[p].value.data.data) = 0
                /\ returned'[p].value.response.main.text = NoDataText
                /\ returned'[p].value.response.count = 0
          /\ ("executeQuery" \in trace'[p]) => returned'[p].status # "rejected"]_vars

\* C9, its case: a call of query whose adapters were invoked and all failed
\* has resolved with the empty record set and the no-data sentence.
C9_Witness ==
    \E p \in Procs :
        /\ pc[p] = "done"
        /\ "adapter" \in trace[p]
        /\ returned[p].status = "resolved"
        /\ returned[p].value.data = EmptyResult
        /\ returned[p].value.response.main.text = NoDataText

\* the step is a call of one of the methods by p
Calls(p, methods) ==
    /\ calls' = calls + 1
    /\ frame'[p].method \in methods

\* where a call stands while init runs
InitPcs == {"init_orchestrator", "init_connector", "init_hosted", "init_end"}

\* C13: in local mode a failure inside query's pipeline other than an adapter
\* failure is not swallowed: a message the key cannot be made of makes query
\* reject, and whenever a query fails after init the promise is rejected with
\* a ConversaError and one 'error' event is emitted in the same step, before
\* the rejection.
C13_PipelineFailureRejectsAndEmits ==
    [][\A p \in SdkCallers :
          Len(config.dataSources) > 0 =>
            /\ (/\ \/ (Calls(p, {"query", "sendMessage"}) /\ isInitialized)
                    \/ (pc[p] = "init_return" /\ pc'[p] # "init_return"
                          /\ frame[p].method # "init")
                 /\ btoaThrows(msg'[p]))
               => /\ pc'[p] = "done"
                  /\ returned'[p].status = "rejected"
                  /\ returned'[p].value.code = "UNEXPECTED_ERROR"
                  /\ cache' = cache
            /\ (/\ pc'[p] = "done"
                 /\ returned'[p].status = "rejected"
                 /\ pc[p] \notin InitPcs
                 /\ (pc[p] # "done" \/ Calls(p, {"query", "sendMessage"})))
               => /\ returned'[p].value.isConversaError
                  /\ events'["error"] = events["error"] + 1]_vars

\* C13, its case: in local mode a query for the euro sign, of which btoa makes
\* no key, was rejected with a ConversaError and the 'error' event was
\* emitted.
C13_Witness ==
    \E p \in SdkCallers :
        /\ Len(config.dataSources) > 0
        /\ isInitialized
        /\ pc[p] = "done"
        /\ msg[p] = <<"U+20AC">>
        /\ returned[p].status = "rejected"
        /\ returned[p].value.isConversaError
        /\ events["error"] = 1

\* C14: init is idempotent once it has succeeded: a call of init on an
\* initialized SDK returns at once; it adds no connector, performs no
\* initialization step and emits no event.
C14_InitIsIdempotent ==
    [][\A p \in SdkCallers :
          (Calls(p, {"init"}) /\ isInitialized)
          => /\ pc'[p] = "done"
             /\ returned'[p] = Promise("resolved", Null)
             /\ connectors' = connectors
             /\ events' = events
             /\ isInitialized' /\ nlpInitialized' = nlpInitialized]_vars

\* C14, its case: init was called on an SDK that was initialized already, and
\* 'initialized' has been emitted once.
C14_Witness ==
    \E p \in SdkCallers :
        /\ frame[p].method = "init"
        /\ frame[p].wasInitialized
        /\ pc[p] = "done"
        /\ returned[p].status = "resolved"
        /\ events["initialized"] = 1

\* C15: when a step of init fails, the call that ran init rejects with a
\* ConversaError, the SDK stays uninitialized and no 'initialized' event is
\* emitted; a call of init, query or sendMessage on an uninitialized SDK
\* attempts the initialization (again).
C15_InitFailureLeavesUninitialized ==
    [][\A p \in SdkCallers :
          /\ (pc[p] \in InitPcs /\ pc'[p] = "done")
             => /\ returned'[p].status = "rejected"
                /\ returned'[p].value.isConversaError
                /\ ~isInitialized'
                /\ events'["initialized"] = events["initialized"]
          /\ (Calls(p, {"init", "query", "sendMessage"}) /\ ~isInitialized)
             => pc'[p] = (IF Len(config.dataSources) > 0 THEN "init_orchestrator"
                          ELSE "init_hosted")]_vars

\* C15, its case: an init that had added the first connector failed, the SDK
\* is uninitialized, and a second call has started the initialization again.
C15_Witness ==
    \E p \in SdkCallers :
        /\ calls = 2
        /\ pc[p] = "init_orchestrator"
        /\ Len(connectors) > 0
        /\ ~isInitialized
        /\ events["initialized"] = 0

\* C20: a query that waits for its adapter calls stays pending as long as
\* at least one call of its batch has not settled, whatever time passes and
\* even when all the other calls have settled; when every call settles in the
\* end, the query returns a response in the end.
C20_QueryWaitsForEveryAdapter ==
    /\ [][\A p \in SdkCallers :
            (pc[p] = "waiting" /\ ~allSettled(loc[p].responses))
            => (pc'[p] = "waiting" /\ returned'[p].status = "pending")]_vars
    /\ \A p \in SdkCallers :
          (pc[p] = "waiting")
            ~> (pc[p] = "done" /\ returned[p].status = "resolved")

\* C20, its case: all but one of the adapter calls of a batch have settled
\* and DefaultTimeout ms have passed since the query started, and the query
\* is still pending.
C20_Witness ==
    \E p \in SdkCallers :
        /\ pc[p] = "waiting"
        /\ Len(loc[p].responses) >= 2
        /\ Cardinality({i \in 1..Len(loc[p].responses) : ~loc[p].responses[i].settled}) = 1
        /\ now - loc[p].startTime >= DefaultTimeout
        /\ returned[p].status = "pending"

\* C16: sendMessage called with a session id that createChatSession never
\* returned does not resolve with an assistant message.
C16_UnknownSessionRejects ==
    \A p \in SdkCallers :
        (frame[p].method = "sendMessage" /\ frame[p].sessionId \notin sessions)
        => frame[p].reply.status # "resolved"

----------------------------------------------------------------------------
(* DataConnectorManager used on its own: executeQuery is called on a manager *)
(* to which three connectors have been added                                *)

\* the texts of the processed queries: 'sales revenue leads', 'sales' and
\* 'hi' select three, one and no connector
FanOutTexts ==
    {<<"s", "a", "l", "e", "s", " ", "r", "e", "v", "e", "n", "u", "e", " ", "l", "e", "a", "d", "s">>,
     <<"s", "a", "l", "e", "s">>, <<"h", "i">>}

\* a caller calls executeQuery(processedQuery): lines 82-100 up to the await
ExecuteQueryCall(p, message) ==
    /\ pc[p] \in {"idle", "joined"}
    /\ calls < MaxCalls
    /\ calls' = calls + 1
    /\ msg' = [msg EXCEPT ![p] = message]
    /\ StartBatch(p, processQuery(message, now))
    /\ pc' = [pc EXCEPT ![p] = "waiting"]
    /\ lastOp' = NoOp
    /\ UNCHANGED <<cache, enabled, defaultTimeout, maxSize, now, ticks, fnVars,
                   isInitialized, nlpInitialized, config, connectors, events,
                   firstComputed, returned, frame, sessions>>

FanOutInit ==
    /\ cache = <<>>
    /\ enabled = TRUE
    /\ defaultTimeout = DefaultTimeout
    /\ maxSize = DefaultMaxSize
    /\ now = 0
    /\ ticks = 0
    /\ lastOp = Op("new", <<>>, Null, {})
    /\ fnIn = <<>>
    /\ fnOut = <<>>
    /\ isInitialized = FALSE
    /\ nlpInitialized = FALSE
    /\ config = [dataSources |-> <<>>, defined |-> FALSE]
    /\ connectors = <<Shopify, Stripe, Salesforce>>
    /\ events = [e \in EventNames |-> 0]
    /\ calls = 0
    /\ pc = [p \in Procs |-> "idle"]
    /\ msg = [p \in Procs |-> <<>>]
    /\ firstComputed = [m \in QueryTexts |-> Null]
    /\ loc = [p \in Procs |-> IdleLoc]
    /\ returned = [p \in Procs |-> Promise("none", Null)]
    /\ trace = [p \in Procs |-> {}]
    /\ frame = [p \in Procs |-> NoFrame]
    /\ sessions = {}

FanOutNext ==
    \/ \E p \in Procs, m \in FanOutTexts : ExecuteQueryCall(p, m)
    \/ \E p \in Procs, i \in 1..Cardinality(connectorClasses) : AdapterThrows(p, i)
    \/ \E p \in Procs, i \in 1..Cardinality(connectorClasses) : AdapterReturns(p, i)
    \/ \E p \in Procs : ExecuteQueryReturn(p)

SpecFanOut == FanOutInit /\ [][FanOutNext]_vars

----------------------------------------------------------------------------
(* Properties of executeQuery, checked under SpecFanOut *)

\* C7: executeQuery starts, in one step and before it waits, exactly one call
\* per selected connector; while it waits a call in flight may settle, once,
\* into a success or (when it threw) a failure outcome, and a settled outcome
\* never changes (no call is made again); it returns only when every call of
\* the batch has settled, with the outcomes as they are.
C7_FanOutWaitsForAll ==
    [][\A p \in Procs :
          /\ (pc[p] # "waiting" /\ pc'[p] = "waiting")
             => /\ loc'[p].relevant =
                      SelectSeq(connectors,
                                LAMBDA c : isConnectorRelevant(c, loc'[p].processedQuery))
                /\ Len(loc'[p].responses) = Len(loc'[p].relevant)
                /\ \A i \in 1..Len(loc'[p].relevant) :
                      loc'[p].responses[i] =
                          [settled |-> FALSE, type |-> loc'[p].relevant[i]]
          /\ (pc[p] = "waiting" /\ pc'[p] = "waiting")
             => /\ Len(loc'[p].responses) = Len(loc[p].responses)
                /\ \A i \in 1..Len(loc[p].responses) :
                      /\ loc'[p].responses[i].type = loc[p].responses[i].type
                      /\ loc[p].responses[i].settled
                            => loc'[p].responses[i] = loc[p].responses[i]
                      /\ loc'[p].responses[i].settled
                            => IF loc'[p].responses[i].success
                               THEN "data" \in DOMAIN loc'[p].responses[i]
                               ELSE "error" \in DOMAIN loc'[p].responses[i]
          /\ (pc[p] = "waiting" /\ pc'[p] # "waiting")
             => /\ pc'[p] = "joined"
                /\ \A i \in 1..Len(loc[p].responses) : loc[p].responses[i].settled
                /\ loc'[p].responses = loc[p].responses]_vars

\* C7, its case: executeQuery has returned from a batch of three calls of
\* which the first had failed and the other two went on to succeed.
C7_Witness ==
    \E p \in Procs :
        /\ pc[p] = "joined"
        /\ Len(loc[p].responses) = 3
        /\ ~loc[p].responses[1].success
        /\ loc[p].responses[2].success
        /\ loc[p].responses[3].success

\* the payloads of the successful outcomes of the batch of p
OkPayloads(p) ==
    LET ok == SelectSeq(loc[p].responses, LAMBDA r : r.settled /\ r.success)
    IN  [i \in 1..Len(ok) |-> ok[i].data]

\* how many outcomes of the batch of p are failures
Failures(p) ==
    Cardinality({i \in 1..Len(loc[p].responses) :
                    loc[p].responses[i].settled /\ ~loc[p].responses[i].success})

\* C8 as amended: when executeQuery has returned there is one outcome per
\* selected adapter; the records of the result are those of the successful
\* outcomes, in order, and none of a failed one; with two or more successful
\* outcomes summary.totalRecords is the sum of their record counts; with
\* exactly one the result is that adapter's payload itself, which has no
\* summary; with none it is the empty set with totalRecords 0.
C8_PartialFailureAggregates ==
    \A p \in Procs :
        pc[p] = "joined" =>
            /\ Len(loc[p].responses) = Len(loc[p].relevant)
            /\ loc[p].results.data = concatData(OkPayloads(p), 1)
            /\ Len(OkPayloads(p)) >= 2
                  => /\ loc[p].results.summary.totalRecords =
                           sumOfLengths(OkPayloads(p), 1)
                     /\ loc[p].results.summary.sources = Len(OkPayloads(p))
            /\ Len(OkPayloads(p)) = 1
                  => /\ loc[p].results = OkPayloads(p)[1]
                     /\ "summary" \notin DOMAIN loc[p].results
            /\ Len(OkPayloads(p)) = 0 => loc[p].results = EmptyResult

\* C8, its case: of three adapters one threw; there are three outcomes, one
\* of them a failure, and totalRecords is the sum of the two record counts.
C8_Witness ==
    \E p \in Procs :
        /\ pc[p] = "joined"
        /\ Len(loc[p].responses) = 3
        /\ Failures(p) = 1
        /\ Len(OkPayloads(p)) = 2
        /\ Len(OkPayloads(p)[1].data) = 1
        /\ Len(OkPayloads(p)[2].data) = 1
        /\ loc[p].results.summary.totalRecords = 2

\* C8 as stated: whenever some adapters threw and the others succeeded, the
\* result has a totalRecords equal to the sum of the successful record counts.
C8_TotalRecordsIsSum ==
    \A p \in Procs :
        (pc[p] = "joined" /\ Failures(p) > 0 /\ Len(OkPayloads(p)) > 0)
        => /\ "summary" \in DOMAIN loc[p].results
           /\ loc[p].results.summary.totalRecords = sumOfLengths(OkPayloads(p), 1)

\* C23: with zero successful outcomes the aggregator returns an empty record
\* list with summary.totalRecords = 0; with exactly one successful outcome it
\* returns that adapter's payload itself, unchanged and not wrapped again.
C23_ZeroOrOneSuccessfulOutcome ==
    \A p \in Procs :
        pc[p] = "joined"
        => LET ok == SelectSeq(loc[p].responses, LAMBDA r : r.success)
           IN  /\ Len(ok) = 0
                  => loc[p].results = [data |-> <<>>, summary |-> [totalRecords |-> 0]]
               /\ Len(ok) = 1
                  => /\ loc[p].results = ok[1].data
                     /\ DOMAIN loc[p].results = {"data", "metadata"}
                     /\ loc[p].results.metadata.source = ok[1].type

\* C23, its case: of three selected adapters two threw and the third returned
\* a payload of one record, and executeQuery returned that payload.
C23_Witness ==
    \E p \in Procs :
        /\ pc[p] = "joined"
        /\ Len(loc[p].responses) = 3
        /\ Failures(p) = 2
        /\ loc[p].results.metadata.count = 1

----------------------------------------------------------------------------
(* The NLP engine and the router of DataConnectorManager on their own: one  *)
(* call of processQuery, assessComplexity, generateInsights or              *)
(* getRelevantConnectors                                                     *)

\* the most entities given to assessComplexity
MaxEntities == 5
\* the most operations given to assessQueryComplexity
MaxOperations == 6

\* the query texts: 'What is the trend in sales?', 'sales trend',
\* 'compare orders', 'hi', 'orders and payments last 7 days',
\* 'compare revenue and orders',
\* 'forecast payments', 'why growth', 'PayPal fees', 'because' and
\* 'customer product order revenue'
NlpTexts ==
    {<<"W", "h", "a", "t", " ", "i", "s", " ", "t", "h", "e", " ", "t", "r", "e", "n", "d", " ", "i", "n", " ", "s", "a", "l", "e", "s", "?">>,
     <<"s", "a", "l", "e", "s", " ", "t", "r", "e", "n", "d">>,
     <<"c", "o", "m", "p", "a", "r", "e", " ", "o", "r", "d", "e", "r", "s">>,
     <<"h", "i">>,
     <<"o", "r", "d", "e", "r", "s", " ", "a", "n", "d", " ", "p", "a", "y", "m", "e", "n", "t", "s", " ", "l", "a", "s", "t", " ", "7", " ", "d", "a", "y", "s">>,
     <<"c", "o", "m", "p", "a", "r", "e", " ", "r", "e", "v", "e", "n", "u", "e", " ", "a", "n", "d", " ", "o", "r", "d", "e", "r", "s">>,
     <<"f", "o", "r", "e", "c", "a", "s", "t", " ", "p", "a", "y", "m", "e", "n", "t", "s">>,
     <<"w", "h", "y", " ", "g", "r", "o", "w", "t", "h">>,
     <<"P", "a", "y", "P", "a", "l", " ", "f", "e", "e", "s">>,
     <<"b", "e", "c", "a", "u", "s", "e">>,
     <<"c", "u", "s", "t", "o", "m", "e", "r", " ", "p", "r", "o", "d", "u", "c", "t", " ", "o", "r", "d", "e", "r", " ", "r", "e", "v", "e", "n", "u", "e">>}

NlpInit ==
    /\ fnIn \in [fn : {"processQuery"}, query : NlpTexts]
           \cup [fn : {"generateInsights"}, query : NlpTexts,
                  counts : UNION {[1..n -> 0..MaxRecords] : n \in 0..3}]
           \cup [fn : {"assessQueryComplexity"},
                  dataSources : 1..Len(sourceKeywords), operations : 0..MaxOperations]
           \cup [fn : {"assessComplexity"},
                  intent : {intentPatterns[k].intent : k \in 1..Len(intentPatterns)},
                  entityType : {"metric", "time_range"},
                  entities : 0..MaxEntities,
                  dataSources : 1..Len(sourceKeywords)]
           \cup [fn : {"getRelevantConnectors"}, query : NlpTexts,
                  dataSources : {<<>>, <<Shopify, Stripe, Salesforce>>,
                                 <<Stripe, Shopify, Stripe>>,
                                 <<<<"p", "a", "y", "p", "a", "l">>, GoogleAnalytics, Shopify>>}]
    /\ fnOut = <<>>
    /\ cache = <<>>
    /\ enabled = TRUE
    /\ defaultTimeout = DefaultTimeout
    /\ maxSize = DefaultMaxSize
    /\ now = 0
    /\ ticks = 0
    /\ lastOp = Op("new", <<>>, Null, {})
    /\ SdkIdle

\* nlpEngine.processQuery(query) is called
ProcessQuery ==
    /\ fnIn.fn = "processQuery"
    /\ fnOut = <<>>
    /\ fnOut' = [value |-> processQuery(fnIn.query, now)]
    /\ UNCHANGED <<fnIn, cacheVars, sdkVars>>

\* addConnector (lines 54-65) is called for each data source in turn, the
\* query is processed and getRelevantConnectors is called with it
GetRelevantConnectors ==
    /\ fnIn.fn = "getRelevantConnectors"
    /\ fnOut = <<>>
    /\ LET RECURSIVE added(_)
           added(n) == IF n = 0 THEN <<>>
                       ELSE connectorsSet(added(n - 1), fnIn.dataSources[n])
           conns == added(Len(fnIn.dataSources))
           processedQuery == processQuery(fnIn.query, now)
       IN  fnOut' = [connectors |-> conns, processedQuery |-> processedQuery,
                     relevant |-> getRelevantConnectors(conns, processedQuery)]
    /\ UNCHANGED <<fnIn, cacheVars, sdkVars>>

\* assessComplexity(intent, entities, dataSources) is called with that many
\* entities of one type and the first so many source ids
AssessComplexity ==
    /\ fnIn.fn = "assessComplexity"
    /\ fnOut = <<>>
    /\ fnOut' = [value |->
                    assessComplexity(
                        fnIn.intent,
                        [i \in 1..fnIn.entities |->
                            [type |-> fnIn.entityType, value |-> i, confidence |-> 90]],
                        [i \in 1..fnIn.dataSources |-> sourceKeywords[i].source])]
    /\ UNCHANGED <<fnIn, cacheVars, sdkVars>>

\* generateInsights(results, processedQuery) is called (ConversaSDK.ts:154)
\* with the processed query and with what combineResults made of the payloads
\* of up to three adapters, which hold counts[i] records each
GenerateInsights ==
    /\ fnIn.fn = "generateInsights"
    /\ fnOut = <<>>
    /\ LET type == <<Shopify, Stripe, Salesforce>>
           payloads == [i \in 1..Len(fnIn.counts) |->
                           formatData([j \in 1..fnIn.counts[i] |->
                                          [source |-> type[i], id |-> j]], type[i])]
           results == combineResults(payloads)
           processedQuery == processQuery(fnIn.query, now)
       IN  fnOut' = [processedQuery |-> processedQuery, results |-> results,
                     value |-> generateInsights(results, processedQuery)]
    /\ UNCHANGED <<fnIn, cacheVars, sdkVars>>

\* assessQueryComplexity(query) is called with a query of that many data
\* sources and operations (ConversaSDK.test.ts:369-377)
AssessQueryComplexity ==
    /\ fnIn.fn = "assessQueryComplexity"
    /\ fnOut = <<>>
    /\ fnOut' = [value |->
                    assessQueryComplexity(
                        [dataSources |-> [i \in 1..fnIn.dataSources |-> sourceKeywords[i].source],
                         operations |-> [i \in 1..fnIn.operations |-> i]])]
    /\ UNCHANGED <<fnIn, cacheVars, sdkVars>>

NlpNext ==
    \/ ProcessQuery
    \/ GetRelevantConnectors
    \/ AssessComplexity
    \/ GenerateInsights
    \/ AssessQueryComplexity

SpecNLP == NlpInit /\ [][NlpNext]_vars

\* the elements of a sequence
Range(s) == {s[i] : i \in 1..Len(s)}

\* the text contains a relevance term of the adapter of this type
ContainsTermOf(text, type) ==
    \E term \in Range(getRelevantTerms(type)) : Includes(ToLowerCase(text), term)

\* C21: when the query text matches none of the per-source keyword lists the
\* candidate list is exactly ["all"], and it is never empty; "all" does not
\* select every adapter: an adapter is selected only if the text contains one
\* of its relevance terms.
C21_AllSelectsNoAdapter ==
    (fnIn.fn = "getRelevantConnectors" /\ fnOut # <<>>)
    => LET dataSources == fnOut.processedQuery.dataSources
           noKeyword == \A i \in 1..Len(sourceKeywords) :
                           \A k \in Range(sourceKeywords[i].keywords) :
                              ~Includes(ToLowerCase(fnIn.query), k)
       IN  /\ dataSources # <<>>
           /\ noKeyword => dataSources = << <<"a", "l", "l">> >>
           /\ ~noKeyword => <<"a", "l", "l">> \notin Range(dataSources)
           /\ \A c \in Range(fnOut.relevant) : ContainsTermOf(fnIn.query, c)

\* C21, its case: three adapters are registered, the candidate list of 'hi'
\* is ["all"] and no adapter is selected.
C21_Witness ==
    /\ fnIn.fn = "getRelevantConnectors"
    /\ fnOut # <<>>
    /\ Len(fnOut.connectors) = 3
    /\ fnOut.processedQuery.dataSources = << <<"a", "l", "l">> >>
    /\ fnOut.relevant = <<>>

\* C22: every registered adapter is selected iff the lower-cased query text
\* contains a term of its relevance-term list (the bare source id when it has
\* no list); no adapter is selected twice, at most one adapter per source type
\* is registered, and the selection is in registration order.
C22_SelectedIffTermContained ==
    (fnIn.fn = "getRelevantConnectors" /\ fnOut # <<>>)
    => LET conns == fnOut.connectors
           relevant == fnOut.relevant
           Pos(seq, x) == CHOOSE i \in 1..Len(seq) : seq[i] = x
       IN  /\ Range(conns) = Range(fnIn.dataSources)
           /\ \A i, j \in 1..Len(conns) : conns[i] = conns[j] => i = j
           /\ \A i, j \in 1..Len(conns) :
                 i < j => Pos(fnIn.dataSources, conns[i]) < Pos(fnIn.dataSources, conns[j])
           /\ \A c \in Range(conns) :
                 /\ c \in Range(relevant) <=> ContainsTermOf(fnIn.query, c)
                 /\ c \notin {Shopify, Stripe, GoogleAnalytics, Salesforce}
                    => (c \in Range(relevant) <=> Includes(ToLowerCase(fnIn.query), c))
           /\ \A i, j \in 1..Len(relevant) : relevant[i] = relevant[j] => i = j
           /\ \A i, j \in 1..Len(relevant) :
                 i < j => Pos(conns, relevant[i]) < Pos(conns, relevant[j])

\* C22, its case: stripe was registered twice, around shopify, and 'compare
\* revenue and orders' selects stripe and then shopify, each once.
C22_Witness ==
    /\ fnIn.fn = "getRelevantConnectors"
    /\ fnOut # <<>>
    /\ fnIn.dataSources = <<Stripe, Shopify, Stripe>>
    /\ fnOut.relevant = <<Stripe, Shopify>>

\* C25: the intent is that of the first keyword set, in the order retrieve,
\* compare, trend, explain, predict, of which the lower-cased text contains a
\* term, and retrieve when it contains none; so a text with a retrieve term
\* is retrieve whatever else it contains, as 'What is the trend in sales?'.
C25_FirstMatchingIntentWins ==
    (fnIn.fn = "processQuery" /\ fnOut # <<>>)
    => LET text == ToLowerCase(fnIn.query)
           Order == <<"retrieve", "compare", "trend", "explain", "predict">>
           Matches(k) == \E t \in Range(intentPatterns[k].patterns) : Includes(text, t)
           intent == fnOut.value.intent
       IN  /\ \A k \in 1..5 : intentPatterns[k].intent = Order[k]
           /\ \A k \in 1..5 :
                 (Matches(k) /\ \A j \in 1..(k - 1) : ~Matches(j)) => intent = Order[k]
           /\ (\A k \in 1..5 : ~Matches(k)) => intent = "retrieve"
           /\ Includes(text, <<"w", "h", "a", "t">>) => intent = "retrieve"
           /\ fnIn.query = <<"W", "h", "a", "t", " ", "i", "s", " ", "t", "h", "e", " ", "t", "r", "e", "n", "d", " ", "i", "n", " ", "s", "a", "l", "e", "s", "?">>
              => intent = "retrieve"

\* C25, its case: 'What is the trend in sales?', which contains the retrieve
\* term 'what' and the trend term 'trend', was classified retrieve.
C25_Witness ==
    /\ fnIn.fn = "processQuery"
    /\ fnOut # <<>>
    /\ fnIn.query = <<"W", "h", "a", "t", " ", "i", "s", " ", "t", "h", "e", " ", "t", "r", "e", "n", "d", " ", "i", "n", " ", "s", "a", "l", "e", "s", "?">>
    /\ Includes(ToLowerCase(fnIn.query), <<"t", "r", "e", "n", "d">>)
    /\ fnOut.value.intent = "retrieve"

\* C26: the complexity is one of simple, moderate, complex and is given by
\* the number of candidate sources, the number of entities and the intent:
\* the score is 2 for more than one source, plus 1 for more than 3 entities,
\* plus 2 for the intents compare and predict; up to 1 is simple, up to 3
\* moderate, more is complex. (1 source, 2 entities, retrieve) is simple,
\* (2, 4, retrieve) is moderate and (3, 5, compare) is complex.
C26_ComplexityFromCounts ==
    (fnIn.fn = "assessComplexity" /\ fnOut # <<>>)
    => LET score == (IF fnIn.dataSources > 1 THEN 2 ELSE 0)
                    + (IF fnIn.entities > 3 THEN 1 ELSE 0)
                    + (IF fnIn.intent \in {"compare", "predict"} THEN 2 ELSE 0)
           Is(sources, entities, intent) ==
               /\ fnIn.dataSources = sources
               /\ fnIn.entities = entities
               /\ fnIn.intent = intent
       IN  /\ fnOut.value \in {"simple", "moderate", "complex"}
           /\ fnOut.value = "simple" <=> score <= 1
           /\ fnOut.value = "moderate" <=> score \in {2, 3}
           /\ fnOut.value = "complex" <=> score >= 4
           /\ Is(1, 2, "retrieve") => fnOut.value = "simple"
           /\ Is(2, 4, "retrieve") => fnOut.value = "moderate"
           /\ Is(3, 5, "compare") => fnOut.value = "complex"

\* C26, its case: assessComplexity was called with 2 sources, 4 entities and
\* the intent retrieve and returned moderate.
C26_Witness ==
    /\ fnIn.fn = "assessComplexity"
    /\ fnOut # <<>>
    /\ fnIn.dataSources = 2
    /\ fnIn.entities = 4
    /\ fnIn.intent = "retrieve"
    /\ fnOut.value = "moderate"

\* the insights of the given type in the list that generateInsights returned
InsightsOf(type) == SelectSeq(fnOut.value, LAMBDA x : x.type = type)

\* C27: the insight list contains a correlation insight iff the intent is
\* compare or the query has more than one source; a compare query gets one
\* also when only one source is involved.
C27_CorrelationIffCompareOrManySources ==
    (fnIn.fn = "generateInsights" /\ fnOut # <<>>)
    => (Len(InsightsOf("correlation")) > 0
        <=> (\/ fnOut.processedQuery.intent = "compare"
             \/ Len(fnOut.processedQuery.dataSources) > 1))

\* C28: the insight list contains a trend insight iff (the intent is trend or
\* some entity has the kind time_range) and the aggregated result has at least
\* 2 records.
C28_TrendIffTrendQueryAndTwoRecords ==
    (fnIn.fn = "generateInsights" /\ fnOut # <<>>)
    => LET pq == fnOut.processedQuery
       IN  /\ Len(InsightsOf("trend")) <= 1
           /\ Len(InsightsOf("trend")) = 1
              <=> /\ \/ pq.intent = "trend"
                     \/ \E e \in Range(pq.entities) : e.type = "time_range"
                  /\ Len(fnOut.results.data) >= 2

\* C28, its case: 'orders and payments last 7 days', whose intent is retrieve
\* and which has a time_range entity, got a trend insight for two records.
C28_Witness ==
    /\ fnIn.fn = "generateInsights"
    /\ fnOut # <<>>
    /\ fnOut.processedQuery.intent = "retrieve"
    /\ Len(fnOut.results.data) = 2
    /\ Len(InsightsOf("trend")) = 1

\* C29: every call of generateInsights yields exactly one anomaly insight, of
\* confidence 0.8, whether or not trend, correlation or recommendation
\* insights are in the list.
C29_AlwaysOneAnomaly ==
    (fnIn.fn = "generateInsights" /\ fnOut # <<>>)
    => /\ Len(InsightsOf("anomaly")) = 1
       /\ InsightsOf("anomaly")[1].confidence = 80

\* C29, its case: the anomaly insight is the only insight of a query without
\* data whose intent is explain.
C29_Witness ==
    /\ fnIn.fn = "generateInsights"
    /\ fnOut # <<>>
    /\ fnOut.processedQuery.intent = "explain"
    /\ fnOut.results.data = <<>>
    /\ Len(fnOut.value) = 1
    /\ fnOut.value[1].type = "anomaly"

\* C30: the insight list contains a recommendation insight, with its three
\* fixed follow-up questions, iff the intent is retrieve and the aggregated
\* result has at least one record; there is at most one per query.
C30_RecommendationIffRetrieveWithData ==
    (fnIn.fn = "generateInsights" /\ fnOut # <<>>)
    => /\ Len(InsightsOf("recommendation")) <= 1
       /\ Len(InsightsOf("recommendation")) = 1
          <=> (fnOut.processedQuery.intent = "retrieve" /\ Len(fnOut.results.data) >= 1)
       /\ \A i \in 1..Len(InsightsOf("recommendation")) :
             InsightsOf("recommendation")[i].recommendations =
                 <<"Try asking about trends over time",
                   "Compare with previous periods",
                   "Look for correlations with other metrics">>

\* C30, its case: a retrieve query with records got all four insights, the
\* recommendation last.
C30_Witness ==
    /\ fnIn.fn = "generateInsights"
    /\ fnOut # <<>>
    /\ Len(fnOut.value) = 4
    /\ fnOut.value[4].type = "recommendation"

\* C31: entities are appended without deduplication: a default business term
\* of kind entity found in the text yields an entity of confidence 0.9, one of
\* kind metric yields a metric entity of confidence 0.8, and each tracked
\* metric found yields a further metric entity of confidence 0.8, so a text
\* containing 'revenue' has two metric entities for it.
C31_EntitiesAppendedWithConfidence ==
    (fnIn.fn = "processQuery" /\ fnOut # <<>>)
    => LET text == ToLowerCase(fnIn.query)
           entities == fnOut.value.entities
           Found(value) == {i \in 1..Len(entities) : entities[i].value = value}
       IN  /\ \A b \in Range(getBusinessTerms) :
                 Includes(text, b.term)
                 => \E i \in Found(b.term) :
                       /\ entities[i].type = b.type
                       /\ entities[i].confidence = (IF b.type = "entity" THEN 90 ELSE 80)
                       /\ b.term \in Range(getMetrics)
                          => \E j \in Found(b.term) :
                                /\ j > i
                                /\ entities[j].type = "metric"
                                /\ entities[j].confidence = 80
           /\ \A i \in 1..Len(entities) :
                 entities[i].type = "metric" => entities[i].confidence = 80
           /\ Includes(text, <<"r", "e", "v", "e", "n", "u", "e">>)
              => Cardinality(Found(<<"r", "e", "v", "e", "n", "u", "e">>)) = 2

\* C32: assessQueryComplexity is simple for a query with 1 data source and 1
\* operation, moderate for 2 data sources and 3 operations and complex for 3
\* data sources and 5 operations.
C32_QueryComplexityExamples ==
    (fnIn.fn = "assessQueryComplexity" /\ fnOut # <<>>)
    => /\ (fnIn.dataSources = 1 /\ fnIn.operations = 1) => fnOut.value = "simple"
       /\ (fnIn.dataSources = 2 /\ fnIn.operations = 3) => fnOut.value = "moderate"
       /\ (fnIn.dataSources = 3 /\ fnIn.operations = 5) => fnOut.value = "complex"

----------------------------------------------------------------------------
(* setMaxSize turn by turn: the loop of CacheManager.ts:144-146 runs inside  *)
(* one callback, so no other operation interleaves with it, but the clock    *)
(* that evictLRU reads keeps moving while the loop spins.                    *)

\* the keys set before the resize; '' is a string like any other
ResizeKeys == {<<>>, <<"A">>, <<"B">>}

\* setMaxSize is running
Resizing == fnIn # <<>> /\ fnIn.fn = "setMaxSize"

\* line 143: this.maxSize = size, then the loop is entered
SetMaxSizeCall(n) ==
    /\ fnIn = <<>>
    /\ ticks < MaxTicks
    /\ maxSize' = n
    /\ fnIn' = [fn |-> "setMaxSize", size |-> n, calledAt |-> now, before |-> cache,
                turn |-> 0]
    /\ fnOut' = <<>>
    /\ lastOp' = Op("setMaxSizeCall", <<>>, Null, {})
    /\ UNCHANGED <<cache, enabled, defaultTimeout, now, ticks, sdkVars>>

\* one evaluation of the loop condition: a turn calls evictLRU, which removes
\* nothing when no entry was last accessed before the clock's reading; turn is
\* the parity of the turns taken
EvictTurn ==
    /\ Resizing
    /\ IF Len(cache) > maxSize
       THEN /\ cache' = evictLRU(cache, now)
            /\ fnIn' = [fnIn EXCEPT !.turn = 1 - @]
            /\ UNCHANGED <<lastOp, fnOut>>
       ELSE /\ fnIn' = <<>>
            /\ fnOut' = fnIn
            /\ lastOp' = Op("setMaxSize", <<>>, Null, Removed(fnIn.before, cache))
            /\ UNCHANGED cache
    /\ UNCHANGED <<enabled, defaultTimeout, maxSize, now, ticks, sdkVars>>

\* Date.now() of line 160 reads a later millisecond than the turn before
ClockMoves ==
    /\ Resizing
    /\ ticks < MaxTicks
    /\ now' = now + 1
    /\ ticks' = ticks + 1
    /\ UNCHANGED <<cache, enabled, defaultTimeout, maxSize, lastOp, fnVars, sdkVars>>

ResizeNext ==
    \/ (fnIn = <<>> /\ \E k \in ResizeKeys : Set(k, [id |-> "r1"], Null))
    \/ (fnIn = <<>> /\ \E k \in ResizeKeys : Get(k))
    \/ (fnIn = <<>> /\ \E d \in TickSteps : Tick(d))
    \/ \E n \in {0, 1, 2} : SetMaxSizeCall(n)
    \/ EvictTurn
    \/ ClockMoves

\* the loop keeps running and the clock keeps moving
SpecResize ==
    CacheInit /\ [][ResizeNext]_vars /\ WF_vars(EvictTurn) /\ WF_vars(ClockMoves)

\* C34: setMaxSize(n) always terminates and leaves the cache with at most n
\* entries, for any n >= 0 and any contents, including entries whose
\* last-access time equals the clock's reading at the call. (Entries accessed
\* at the clock's reading are evicted once the clock has moved.)
C34_SetMaxSizeTerminates ==
    /\ Resizing ~> ~Resizing
    /\ [][(Resizing /\ ~Resizing') => (Len(cache') <= fnIn.size /\ maxSize' = fnIn.size)]_vars

----------------------------------------------------------------------------
(* What a failing query leaves in the cache, checked under SpecSDK *)

\* the positions of query after its cache lookup
AfterLookup == {"lookup", "processed", "waiting", "joined"}

----------------------------------------------------------------------------
(* The life of one SDK object with one caller: data sources are added and    *)
(* removed and the SDK is destroyed between the calls of init and query.     *)
(* With one caller nothing runs between the awaits of these three methods,   *)
(* so each is one step.                                                      *)

\* a data source type without a connector class
Mysql == <<"m", "y", "s", "q", "l">>

\* the type of the data source passed to addDataSource and removeDataSource
SourceTypes == {Shopify, Stripe, Mysql}

\* the configurations: hosted (dataSources: undefined), one data source, and
\* a data source of a type without a connector class
LifeConfigs ==
    {[dataSources |-> <<>>, defined |-> FALSE],
     [dataSources |-> <<Shopify>>, defined |-> TRUE],
     [dataSources |-> <<Mysql>>, defined |-> TRUE]}

\* p has no call in progress
Idle(p) ==
    /\ pc[p] \in {"idle", "done"}
    /\ frame[p].reply.status # "pending"

\* the successful changes so far, each of which has emitted its event
Changes ==
    events["dataSourceAdded"] + events["dataSourceRemoved"] + events["destroyed"]

\* the TypeError of calling a method of undefined
TypeError == JsError("Cannot read properties of undefined")

\* Map.delete on the connectors map
connectorsDelete(conns, type) == SelectSeq(conns, LAMBDA c : c # type)

\* addConnector as it would be if it registered the connector before
\* initializing it
addConnectorRegistersFirst(conns, type, ok) ==
    IF type \notin connectorClasses
    THEN <<conns, JsError("Unsupported data source type")>>
    ELSE IF ~ok THEN <<connectorsSet(conns, type), CHOOSE e \in Thrown : TRUE>>
    ELSE <<connectorsSet(conns, type), Null>>

\* DataConnectorManager.addConnector, lines 54-65: <<the map afterwards, the
\* error thrown or Null>>; ok tells whether the connector's initialize
\* resolves
addConnector(conns, type, ok) ==
    IF type \notin connectorClasses
    THEN <<conns, JsError("Unsupported data source type")>>
    ELSE IF ~ok THEN <<conns, CHOOSE e \in Thrown : TRUE>>
    ELSE <<connectorsSet(conns, type), Null>>

\* the call of method with argument arg by p ends with promise
LifeReturn(p, method, arg, promise) ==
    /\ Return(p, promise)
    /\ frame' = [frame EXCEPT ![p] = [NoFrame EXCEPT !.method = method]]
    /\ msg' = [msg EXCEPT ![p] = arg]
    /\ trace' = [trace EXCEPT ![p] = {}]
    /\ lastOp' = NoOp

\* ConversaBI.addDataSource, ConversaSDK.ts:271-275
AddDataSource(p, type, ok) ==
    /\ Idle(p)
    /\ Changes < MaxChanges
    /\ Len(config.dataSources) < MaxSources
    /\ LET added == addConnector(connectors, type, ok)
       IN  /\ connectors' = added[1]
           /\ IF added[2] # Null
              THEN /\ LifeReturn(p, "addDataSource", type, Promise("rejected", added[2]))
                   /\ UNCHANGED <<config, events>>
              ELSE IF ~config.defined
              THEN /\ LifeReturn(p, "addDataSource", type, Promise("rejected", TypeError))
                   /\ UNCHANGED <<config, events>>
              ELSE /\ config' = [config EXCEPT !.dataSources = Append(@, type)]
                   /\ events' = emit(events, "dataSourceAdded")
                   /\ LifeReturn(p, "addDataSource", type, Promise("resolved", Null))
    /\ UNCHANGED <<cache, enabled, defaultTimeout, maxSize, now, ticks, fnVars,
                   isInitialized, nlpInitialized, calls, sessions, firstComputed>>

\* ConversaBI.removeDataSource, ConversaSDK.ts:280-286, with
\* DataConnectorManager.removeConnector, lines 70-76; ok tells whether the
\* connector's destroy resolves
RemoveDataSource(p, type, ok) ==
    /\ Idle(p)
    /\ Changes < MaxChanges
    /\ IF (\E i \in 1..Len(connectors) : connectors[i] = type) /\ ~ok
       THEN /\ \E e \in Thrown :
                  LifeReturn(p, "removeDataSource", type, Promise("rejected", e))
            /\ UNCHANGED <<connectors, config, events>>
       ELSE /\ connectors' = connectorsDelete(connectors, type)
            /\ IF ~config.defined
               THEN /\ LifeReturn(p, "removeDataSource", type,
                                  Promise("rejected", TypeError))
                    /\ UNCHANGED <<config, events>>
               ELSE /\ config' = [config EXCEPT !.dataSources =
                                      SelectSeq(@, LAMBDA ds : ds # type)]
                    /\ events' = emit(events, "dataSourceRemoved")
                    /\ LifeReturn(p, "removeDataSource", type,
                                  Promise("resolved", Null))
    /\ UNCHANGED <<cache, enabled, defaultTimeout, maxSize, now, ticks, fnVars,
                   isInitialized, nlpInitialized, calls, sessions, firstComputed>>

\* destroy as it would be if it kept the cache
DestroyKeepsCache(p, ok) ==
    /\ Idle(p)
    /\ Changes < MaxChanges
    /\ IF Len(connectors) > 0 /\ ~ok
       THEN /\ \E e \in Thrown : LifeReturn(p, "destroy", Null, Promise("rejected", e))
            /\ UNCHANGED <<cache, connectors, isInitialized, events>>
       ELSE /\ connectors' = <<>>
            /\ isInitialized' = FALSE
            /\ events' = emit(events, "destroyed")
            /\ LifeReturn(p, "destroy", Null, Promise("resolved", Null))
            /\ UNCHANGED cache
    /\ UNCHANGED <<enabled, defaultTimeout, maxSize, now, ticks, fnVars,
                   nlpInitialized, config, calls, sessions, firstComputed>>

\* ConversaBI.destroy, ConversaSDK.ts:317-323: DataConnectorManager.destroy
\* (lines 182-188) destroys every connector and clears the map, the
\* orchestrator forgets its servers, CacheManager.destroy (lines 153-155)
\* clears the cache; ok tells whether the connectors' destroy resolves
Destroy(p, ok) ==
    /\ Idle(p)
    /\ Changes < MaxChanges
    /\ IF Len(connectors) > 0 /\ ~ok
       THEN /\ \E e \in Thrown : LifeReturn(p, "destroy", Null, Promise("rejected", e))
            /\ UNCHANGED <<cache, connectors, isInitialized, events>>
       ELSE /\ connectors' = <<>>
            /\ cache' = <<>>
            /\ isInitialized' = FALSE
            /\ events' = emit(events, "destroyed")
            /\ LifeReturn(p, "destroy", Null, Promise("resolved", Null))
    /\ UNCHANGED <<enabled, defaultTimeout, maxSize, now, ticks, fnVars,
                   nlpInitialized, config, calls, sessions, firstComputed>>

\* new ConversaBI(config) with one of the configurations above
LifeInit ==
    /\ cache = <<>>
    /\ enabled = TRUE
    /\ defaultTimeout = DefaultTimeout
    /\ maxSize = DefaultMaxSize
    /\ now = 0
    /\ ticks = 0
    /\ lastOp = Op("new", <<>>, Null, {})
    /\ fnIn = <<>>
    /\ fnOut = <<>>
    /\ isInitialized = FALSE
    /\ nlpInitialized = FALSE
    /\ config \in LifeConfigs
    /\ connectors = <<>>
    /\ events = [e \in EventNames |-> 0]
    /\ calls = 0
    /\ pc = [p \in Procs |-> "idle"]
    /\ msg = [p \in Procs |-> <<>>]
    /\ firstComputed = [m \in QueryTexts |-> Null]
    /\ loc = [p \in Procs |-> IdleLoc]
    /\ returned = [p \in Procs |-> Promise("none", Null)]
    /\ trace = [p \in Procs |-> {}]
    /\ frame = [p \in Procs |-> NoFrame]
    /\ sessions = {}

\* the text the caller asks
LifeTexts == {<<"s", "a", "l", "e", "s", " ", "r", "e", "v", "e", "n", "u", "e">>}

LifeNext ==
    \/ \E p \in SdkCallers, m \in LifeTexts : QueryCall(p, m)
    \/ \E p \in SdkCallers : InitCall(p)
    \/ \E p \in SdkCallers : InitReturn(p)
    \/ \E p \in SdkCallers, ok \in BOOLEAN : InitOrchestratorSettle(p, ok)
    \/ \E p \in SdkCallers, ok \in BOOLEAN : InitConnectorSettle(p, ok)
    \/ \E p \in SdkCallers, ok \in BOOLEAN : InitHostedSettle(p, ok)
    \/ \E p \in SdkCallers : InitEnd(p)
    \/ \E p \in SdkCallers : QueryResume(p)
    \/ \E p \in SdkCallers, ok \in BOOLEAN : QueryHostedSettle(p, ok)
    \/ \E p \in SdkCallers : QueryLookedUp(p)
    \/ \E p \in SdkCallers : ExecuteQuery(p)
    \/ \E p \in SdkCallers, i \in 1..Cardinality(connectorClasses) : AdapterThrows(p, i)
    \/ \E p \in SdkCallers, i \in 1..Cardinality(connectorClasses) : AdapterReturns(p, i)
    \/ \E p \in SdkCallers : ExecuteQueryReturn(p)
    \/ \E p \in SdkCallers : QueryFinish(p)
    \/ \E p \in SdkCallers, t \in SourceTypes, ok \in BOOLEAN : AddDataSource(p, t, ok)
    \/ \E p \in SdkCallers, t \in SourceTypes, ok \in BOOLEAN : RemoveDataSource(p, t, ok)
    \/ \E p \in SdkCallers, ok \in BOOLEAN : Destroy(p, ok)
    \/ \E d \in {1} : Tick(d)

SpecLifecycle == LifeInit /\ [][LifeNext]_vars

----------------------------------------------------------------------------
(* Properties of the life of the SDK, checked under SpecLifecycle *)

\* this step is the call of method by p
LifeStep(p, method) ==
    /\ Idle(p)
    /\ now' = now
    /\ pc'[p] = "done"
    /\ frame'[p].method = method

\* C33: addConnector fails with an error and leaves the registered connectors
\* unchanged when the type has no connector class, and likewise when the new
\* connector's initialize fails: the error propagates to the caller and the
\* connector is not registered. No connector of a type without a class is
\* ever registered.
C33_FailedAddRegistersNothing ==
    /\ [](\A i \in 1..Len(connectors) : connectors[i] \in connectorClasses)
    /\ [][\A p \in SdkCallers :
              LifeStep(p, "addDataSource")
              => /\ msg'[p] \notin connectorClasses
                    => /\ returned'[p].status = "rejected"
                       /\ returned'[p].value.message = "Unsupported data source type"
                       /\ connectors' = connectors
                 /\ (returned'[p].status = "rejected" /\ returned'[p].value \in Thrown)
                    => connectors' = connectors]_vars

\* C33, its case: with shopify registered, addDataSource of stripe has been
\* rejected with the error of the connector's initialize, and stripe is not
\* registered.
C33_Witness ==
    \E p \in SdkCallers :
        /\ pc[p] = "done"
        /\ frame[p].method = "addDataSource"
        /\ msg[p] = Stripe
        /\ returned[p].status = "rejected"
        /\ returned[p].value \in Thrown
        /\ connectors = <<Shopify>>

C39_DestroyResetsEverything ==
    /\ [](~isInitialized => cache = <<>>)
    /\ [][\A p \in SdkCallers :
              /\ (LifeStep(p, "destroy") /\ returned'[p].status = "resolved")
                 => (~isInitialized' /\ connectors' = <<>> /\ cache' = <<>>)
              /\ (Idle(p) /\ ~isInitialized /\ frame'[p].method = "query" /\ ~Idle(p)')
                 => pc'[p] \in {"init_orchestrator", "init_hosted"}
              /\ (pc[p] = "init_end" /\ pc'[p] = "init_return")
                 => Range(config.dataSources) \subseteq Range(connectors')
              /\ (pc[p] = "init_return" /\ pc'[p] = "lookup")
                 => loc'[p].cachedResponse = Null
              /\ (pc[p] = "joined" /\ pc'[p] = "done")
                 => returned'[p].value.metadata.cacheHit = FALSE]_vars

\* C39, its case: a text was computed and cached, the SDK was destroyed, and
\* the same text has been asked again: init ran a second time, the connector
\* is registered again and the response was computed anew.
C39_Witness ==
    \E p \in SdkCallers :
        /\ pc[p] = "done"
        /\ frame[p].method = "query"
        /\ returned[p].status = "resolved"
        /\ Len(config.dataSources) > 0
        /\ returned[p].value.metadata.cacheHit = FALSE
        /\ events["destroyed"] = 1
        /\ events["initialized"] = 2
        /\ events["query"] = 2
        /\ isInitialized
        /\ connectors = config.dataSources
        /\ Len(cache) = 1

----------------------------------------------------------------------------
(* Two callers of one SDK object: the second calls init or query while the   *)
(* call of the first is still at one of its awaits. Nothing fails here.      *)

\* the text both callers ask: 'sales revenue'
OverlapTexts == {<<"s", "a", "l", "e", "s", " ", "r", "e", "v", "e", "n", "u", "e">>}

OverlapNext ==
    \/ \E p \in Procs, m \in OverlapTexts : QueryCall(p, m)
    \/ \E p \in Procs : InitCall(p)
    \/ \E p \in Procs : InitReturn(p)
    \/ \E p \in Procs : InitOrchestratorSettle(p, TRUE)
    \/ \E p \in Procs : InitConnectorSettle(p, TRUE)
    \/ \E p \in Procs : InitHostedSettle(p, TRUE)
    \/ \E p \in Procs : InitEnd(p)
    \/ \E p \in Procs : QueryResume(p)
    \/ \E p \in Procs : QueryHostedSettle(p, TRUE)
    \/ \E p \in Procs : QueryLookedUp(p)
    \/ \E p \in Procs : ExecuteQuery(p)
    \/ \E p \in Procs, i \in 1..Cardinality(connectorClasses) : AdapterReturns(p, i)
    \/ \E p \in Procs : ExecuteQueryReturn(p)
    \/ \E p \in Procs : QueryFinish(p)

SpecOverlap == SdkInit /\ [][OverlapNext]_vars

\* C35: init adds the connector of each configured data source exactly once
\* and emits 'initialized' exactly once, also when calls of init and query
\* overlap: no connector's initialize settles for a type that is registered
\* already, and 'initialized' is never emitted a second time.
C35_InitRunsOnceUnderOverlap ==
    /\ [](events["initialized"] <= 1)
    /\ [][\A p \in Procs :
              (pc[p] = "init_connector" /\ pc'[p] # "init_connector")
              => \A i \in 1..Len(connectors) : connectors[i] # loc[p].dataSource]_vars

----------------------------------------------------------------------------
(* MCPOrchestrator.sendRequest on its own (the class is in                  *)
(* utils/__tests__/error-handler.test.ts). A value is [kind, message]: the  *)
(* kind tells what it is, the message is that of an Error.                  *)

McpValue(kind, message) == [kind |-> kind, message |-> message]

\* what a tool handler does when called: it resolves with data or with
\* undefined, or rejects with an Error, with a string or with no reason
McpHandlers ==
    {"returns", "returnsUndefined", "throwsError", "throwsString", "rejectsUndefined"}

\* createShopifyMCPServer, lines 622-686: two tools whose handlers return
\* mock data, and two resources
ShopifyMCPServer ==
    [name |-> "shopify",
     tools |-> <<[name |-> "get_products", handler |-> "returns"],
                 [name |-> "get_orders", handler |-> "returns"]>>,
     resources |-> <<[uri |-> "shopify://products", name |-> "Products"],
                     [uri |-> "shopify://orders", name |-> "Orders"]>>]

\* a server registered by the application with registerServer (lines
\* 469-471), with one tool of the given behaviour and no resource
CustomMCPServer(h) ==
    [name |-> "custom", tools |-> <<[name |-> "run", handler |-> h]>>,
     resources |-> <<>>]

\* the outcome of a call: [thrown, value]
Outcome(thrown, value) == [thrown |-> thrown, value |-> value]

\* await tool.handler(args), line 818
callHandler(h) ==
    CASE h = "returns" -> Outcome(FALSE, McpValue("data", ""))
      [] h = "returnsUndefined" -> Outcome(FALSE, McpValue("undefined", ""))
      [] h = "throwsError" -> Outcome(TRUE, McpValue("error", "handler failed"))
      [] h = "throwsString" -> Outcome(TRUE, McpValue("string", ""))
      [] OTHER -> Outcome(TRUE, McpValue("undefined", ""))

\* MCPOrchestrator.handleMCPRequest, lines 807-840; destructuring
\* request.params throws a TypeError when the request has no params
handleMCPRequest(server, request) ==
    CASE request.method = "tools/list" -> Outcome(FALSE, McpValue("tools", ""))
      [] request.method = "tools/call" ->
            IF ~request.params.defined
            THEN Outcome(TRUE, McpValue("error", "Cannot destructure property"))
            ELSE IF \A i \in 1..Len(server.tools) :
                       server.tools[i].name # request.params.name
            THEN Outcome(TRUE, McpValue("error", "Tool not found"))
            ELSE callHandler(
                     server.tools[CHOOSE i \in 1..Len(server.tools) :
                         /\ server.tools[i].name = request.params.name
                         /\ \A j \in 1..(i - 1) :
                               server.tools[j].name # request.params.name].handler)
      [] request.method = "resources/list" -> Outcome(FALSE, McpValue("resources", ""))
      [] request.method = "resources/read" ->
            IF ~request.params.defined
            THEN Outcome(TRUE, McpValue("error", "Cannot destructure property"))
            ELSE IF \A i \in 1..Len(server.resources) :
                       server.resources[i].uri # request.params.uri
            THEN Outcome(TRUE, McpValue("error", "Resource not found"))
            ELSE Outcome(FALSE, McpValue("resource", ""))
      [] OTHER -> Outcome(TRUE, McpValue("error", "Unknown method"))

\* a JSON-RPC response: which of result and error it has, and their values
McpResponse(id, hasResult, result, hasError, code, message) ==
    [id |-> id, hasResult |-> hasResult, result |-> result,
     hasError |-> hasError, code |-> code, message |-> message]

\* MCPOrchestrator.sendRequest, lines 541-573: [rejected, response]. The
\* catch reads error.message, which is undefined on a string and throws a
\* TypeError on undefined
sendRequest(servers, serverName, request) ==
    IF \A i \in 1..Len(servers) : servers[i].name # serverName
    THEN [rejected |-> FALSE,
          response |-> McpResponse(request.id, FALSE, "", TRUE, -32601,
                                   McpValue("string", "Server not found"))]
    ELSE LET server == servers[CHOOSE i \in 1..Len(servers) :
                                   servers[i].name = serverName]
             handled == handleMCPRequest(server, request)
         IN  IF ~handled.thrown
             THEN [rejected |-> FALSE,
                   response |-> McpResponse(request.id, TRUE, handled.value.kind,
                                            FALSE, 0, McpValue("undefined", ""))]
             ELSE IF handled.value.kind = "undefined"
             THEN [rejected |-> TRUE,
                   response |-> McpResponse(request.id, FALSE, "", FALSE, 0,
                                            McpValue("undefined", ""))]
             ELSE [rejected |-> FALSE,
                   response |->
                       McpResponse(request.id, FALSE, "", TRUE, -32603,
                                   IF handled.value.kind = "error"
                                   THEN McpValue("string", handled.value.message)
                                   ELSE McpValue("undefined", ""))]

\* the requests: the four methods and an unknown one, without params and
\* with the name of a tool or the uri of a resource, known or not
McpRequests ==
    [id : {1, 2},
     method : {"tools/list", "tools/call", "resources/list", "resources/read", "ping"},
     params : {[defined |-> FALSE, name |-> "", uri |-> ""],
               [defined |-> TRUE, name |-> "get_products", uri |-> ""],
               [defined |-> TRUE, name |-> "run", uri |-> ""],
               [defined |-> TRUE, name |-> "unknown_tool", uri |-> ""],
               [defined |-> TRUE, name |-> "", uri |-> "shopify://products"],
               [defined |-> TRUE, name |-> "", uri |-> "shopify://unknown"]}]

\* the servers of the orchestrator: none before initialize, the built-in ones
\* after it, and the built-in ones with a registered server
McpServers ==
    {<<>>, <<ShopifyMCPServer>>}
    \cup {<<ShopifyMCPServer, CustomMCPServer(h)>> : h \in McpHandlers}

McpInit ==
    /\ fnIn \in [fn : {"sendRequest"}, servers : McpServers,
                  serverName : {"shopify", "custom", "unknown"},
                  request : McpRequests]
    /\ fnOut = <<>>
    /\ cache = <<>>
    /\ enabled = TRUE
    /\ defaultTimeout = DefaultTimeout
    /\ maxSize = DefaultMaxSize
    /\ now = 0
    /\ ticks = 0
    /\ lastOp = Op("new", <<>>, Null, {})
    /\ SdkIdle

\* sendRequest(serverName, request) is called
SendRequest ==
    /\ fnIn.fn = "sendRequest"
    /\ fnOut = <<>>
    /\ fnOut' = sendRequest(fnIn.servers, fnIn.serverName, fnIn.request)
    /\ UNCHANGED <<fnIn, cacheVars, sdkVars>>

McpNext == SendRequest

SpecMCP == McpInit /\ [][McpNext]_vars

\* C40: sendRequest never throws: for every server name and request it
\* returns a response that echoes the request id and has exactly one of
\* result and error, with error code -32601 when the server is not
\* registered and -32603 when handling the request fails (unknown method,
\* unknown tool or resource, or a tool handler that throws).
C40_SendRequestNeverThrows ==
    (fnIn.fn = "sendRequest" /\ fnOut # <<>>)
    => LET registered == \E i \in 1..Len(fnIn.servers) :
                             fnIn.servers[i].name = fnIn.serverName
           r == fnOut.response
       IN  /\ ~fnOut.rejected
           /\ r.id = fnIn.request.id
           /\ r.hasResult # r.hasError
           /\ ~registered => (r.hasError /\ r.code = -32601)
           /\ (registered /\ r.hasError) => r.code = -32603
           /\ (registered /\ fnIn.request.method = "ping") => r.hasError

====
